---- MODULE Spec2Model ----
(***************************************************************************)
(* A model of archie's decision-and-orchestration engine:                  *)
(*   - Workflow.__call__           (archie/workflows/workflow.py)           *)
(*   - Triager._triage_task        (archie/triager.py)                      *)
(*   - Triager.triage/apply/sort over LoggingThreadPoolExecutor            *)
(*                                 (archie/triager.py, archie/_executor.py) *)
(*   - Triager._generate_moves     (archie/triager.py)                      *)
(* Each component has its own specification; the variables of the other    *)
(* components stay at their idle values.                                   *)
(***************************************************************************)
EXTENDS Integers, Sequences, FiniteSets, TLC

VARIABLES
    \* ---- Workflow.__call__ ----
    task,            \* the item snapshot: what the stage manager and the predicates answer for it
    wfPc,            \* position of the pass: "idle", "loop", "can_set", "apply", "set_stage", "done"
    current_stage,   \* local current_stage
    original_stage,  \* local original_stage
    next_stage,      \* local next_stage
    actions,         \* local actions (accumulated on_enter actions)
    applied,         \* number of actions of `actions` already called by the for loop
    set_ctx,         \* local set_stage_context_or_warning (the stage can_set_stage accepted)
    calls,           \* calls made by the current pass, in order
    warnings,        \* warnings logged by the current pass
    raised,          \* the current pass ended by an exception
    effects,         \* remote effects so far (all passes): applied actions, persisted stages
    passes,          \* number of passes started
    \* ---- Triager._triage_task ----
    ttask,           \* the item and the registries: what each predicate answers for the item
    ttPc,            \* position in _triage_task: "idle", "ignore", "rules", "produce", "apply", "done"
    ignoreSeen,      \* ignore predicates already evaluated by find()
    ruleIdx,         \* position of the comprehension in _predicate_action_pairs
    tactions,        \* the list `actions` built by the comprehension
    tapplied,        \* number of actions already called by _apply_actions
    tcalls,          \* calls made by _triage_task, in order
    traised,         \* _triage_task ended by an exception
    \* ---- Triager._generate_moves and the reorder calls of _sort_section ----
    seq,             \* parameter seq: (rank, task) pairs in physical order
    output,          \* local output (the backbone)
    moves,           \* local moves
    mvK,             \* position in seq of the next elem of `for elem in seq[1:]`
    mvPc,            \* "start", "loop", "apply", "in_call", "done", "failed"
    physical,        \* the order of the tasks in the remote section
    mvApplied,       \* number of reorder calls of _sort_section that have returned
    sent,            \* the reorder calls issued to the collaborator, in order
    \* ---- Triager.triage / apply / sort over LoggingThreadPoolExecutor ----
    mode,            \* the method running: "triage", "apply" or "sort"
    nUnits,          \* number of items the source yields (of registered sections, for sort)
    mainPc,          \* the calling thread: "iterate", "register", "shutdown", "returned", "propagated"
    inSubmit,             \* the unit whose submit() is between super().submit and add_done_callback
    submitted,       \* the units submitted so far, in order
    queue,           \* the executor's work queue
    workerPc,        \* per worker thread: "idle", "running", "callbacks"
    workerUnit,      \* per worker thread: the unit it holds
    unit,            \* per unit, the state of its future: "new", "pending", "running", "ok", "failed"
    cb,              \* per unit: _log_failure is in the future's list of done callbacks
    logged,          \* per unit: number of error records logged for it
    sourceFailed,    \* the source iterator raised
    completed,       \* the units whose handler has been run to its end, in order of completion
    \* ---- the blob-backed stage manager ----
    task_external,   \* task.external of the item snapshot: NoExternal or an External
    remote_external, \* the External Blob of the item as the collaborator holds it
    blobPc,          \* "get", "can_set", "actions", "set", "done", "raised"
    blob_stage,      \* name of the stage get_current_stage returned, or NoneStr
    blob_context,    \* the get context, then (with stage_name) the set context
    set_external_calls, \* the Externals handed to client.set_external by set_stage, in order
    overwritten,     \* the remote blobs that the writes of set_stage replaced, in order
    \* ---- ModifiedSinceSource ----
    clock,           \* datetime.utcnow(), in ticks
    modified_at,     \* per task of the project: time of its last modification, or NeverModified
    last_run,        \* the timestamp kept by the _set_last_run/_get_last_run hooks (persisted)
    msPc,            \* "poll", "fetch", "set", "yield", "sleep", "stopped"
    modified_since,  \* local modified_since of iterator()
    now,             \* local now of iterator()
    batch,           \* the part of local tasks not yet yielded
    yielded,         \* per task: the modification time in its snapshot last yielded, or NeverModified
    polls,           \* the fetches issued, in order, with their modified_since and now
    restarts,        \* number of times the triager was started again
    constructed,     \* the times at which a ModifiedSinceSource was constructed, in order
    \* ---- the predicate combinators ----
    predicate,       \* the predicate called: a tree of _And, _Or, _Not over the user's predicates
    answers,         \* per user predicate: what it answers for the item
    predPc,          \* "ready", "called"
    result,          \* what the call returned and the user predicates it invoked, in order
    \* ---- the duration-qualified predicates ----
    fa_now,          \* _now() at the call
    fa_created_at,   \* task.created_at
    fa_stories,      \* client.stories_by_task(task), oldest first
    fa_duration,     \* self.duration
    fa_in_state,     \* _is_in_correct_state(task)
    faPc,            \* "ready", "called"
    fa_result,       \* what the call returned: "true" or "false"
    \* ---- DueDateSorter and StartDateSorter ----
    so_kind,         \* the sorter: "due" for DueDateSorter, "start" for StartDateSorter
    so_ascending,    \* constructor argument ascending
    so_missing_first,\* constructor argument missing_first
    so_tasks,        \* the tasks handed to sort()
    so_sorted,       \* the list sort() returned
    soPc,            \* "ready", "sorted"
    \* ---- PollingSource.iterator ----
    ps_repeat,       \* self.repeat_after is not None
    psPc,            \* the generator: "created", "project", "fetch", "yield_from", "suspended", "sleep", "exhausted", "raised"
    ps_list,         \* the part of the fetched list not yet yielded
    ps_fetches,      \* number of calls of client.tasks_by_project
    ps_requests,     \* number of times the consumer asked for the next task
    ps_trace,        \* the events of the run, in order
    \* ---- the stage managers reading a persisted label, under a Workflow pass ----
    lbl_task,        \* the item snapshot: its kind of workflow and its external or memberships
    lblPc,           \* "get", "loop", "advance", "done"
    lbl_result,      \* what get_current_stage returned
    lbl_current,     \* local current_stage of the pass, a stage name or None
    lbl_next,        \* local next_stage of the pass, a stage name or None
    lbl_actions,     \* local actions of the pass
    lbl_applied,     \* the actions applied to the item
    lbl_persisted,   \* the stage name set_stage persisted, or None
    \* ---- the stage manager of EnumCustomFieldWorkflow ----
    en_fields,       \* custom_fields of the item snapshot
    enPc,            \* "get", "can_set", "set", "done"
    en_result,       \* what get_current_stage returned
    en_stage,        \* the stage name can_set_stage was asked for
    en_can,          \* what can_set_stage returned
    en_set           \* the option handed to client.set_enum_custom_field, or None

wfVars == <<task, wfPc, current_stage, original_stage, next_stage, actions,
            applied, set_ctx, calls, warnings, raised, effects, passes>>

ttVars == <<ttask, ttPc, ignoreSeen, ruleIdx, tactions, tapplied, tcalls, traised>>

mvVars == <<seq, output, moves, mvK, mvPc, physical, mvApplied, sent>>

poolVars == <<mode, nUnits, mainPc, inSubmit, submitted, queue, workerPc, workerUnit,
              unit, cb, logged, sourceFailed, completed>>

blobVars == <<task_external, remote_external, blobPc, blob_stage, blob_context,
              set_external_calls, overwritten>>

msVars == <<clock, modified_at, last_run, msPc, modified_since, now, batch, yielded,
            polls, restarts, constructed>>

predVars == <<predicate, answers, predPc, result>>

faVars == <<fa_now, fa_created_at, fa_stories, fa_duration, fa_in_state, faPc, fa_result>>

soVars == <<so_kind, so_ascending, so_missing_first, so_tasks, so_sorted, soPc>>

psVars == <<ps_repeat, psPc, ps_list, ps_fetches, ps_requests, ps_trace>>

lblVars == <<lbl_task, lblPc, lbl_result, lbl_current, lbl_next, lbl_actions, lbl_applied, lbl_persisted>>

enumVars == <<en_fields, enPc, en_result, en_stage, en_can, en_set>>

vars == <<wfVars, ttVars, mvVars, poolVars, blobVars, msVars, predVars, faVars, soVars, psVars, lblVars, enumVars>>

\* the variables of the other components, for each component
notWf == <<ttVars, mvVars, poolVars, blobVars, msVars, predVars, faVars, soVars, psVars, lblVars, enumVars>>
notTt == <<wfVars, mvVars, poolVars, blobVars, msVars, predVars, faVars, soVars, psVars, lblVars, enumVars>>
notMv == <<wfVars, ttVars, poolVars, blobVars, msVars, predVars, faVars, soVars, psVars, lblVars, enumVars>>
notPool == <<wfVars, ttVars, mvVars, blobVars, msVars, predVars, faVars, soVars, psVars, lblVars, enumVars>>
notBlob == <<wfVars, ttVars, mvVars, poolVars, msVars, predVars, faVars, soVars, psVars, lblVars, enumVars>>
notMs == <<wfVars, ttVars, mvVars, poolVars, blobVars, predVars, faVars, soVars, psVars, lblVars, enumVars>>
notPred == <<wfVars, ttVars, mvVars, poolVars, blobVars, msVars, faVars, soVars, psVars, lblVars, enumVars>>
notFa == <<wfVars, ttVars, mvVars, poolVars, blobVars, msVars, predVars, soVars, psVars, lblVars, enumVars>>
notSo == <<wfVars, ttVars, mvVars, poolVars, blobVars, msVars, predVars, faVars, psVars, lblVars, enumVars>>
notPs == <<wfVars, ttVars, mvVars, poolVars, blobVars, msVars, predVars, faVars, soVars, lblVars, enumVars>>
notLbl == <<wfVars, ttVars, mvVars, poolVars, blobVars, msVars, predVars, faVars, soVars, psVars, enumVars>>
notEnum == <<wfVars, ttVars, mvVars, poolVars, blobVars, msVars, predVars, faVars, soVars, psVars, lblVars>>

----------------------------------------------------------------------------
(* Bounds *)
NumStages == 3
MaxPasses == 2
NumIgnores == 2
NumRules == 2
MaxTasks == 5
MaxUnits == 3
NumWorkers == 2
NumMsTasks == 1
MaxTime == 3
MaxPolls == 2
MaxRestarts == 1
MaxOperators == 2
MaxClock == 3
MaxStories == 2
NumDates == 2
MaxSorted == 3
MaxFetches == 3
MaxList == 2
MaxMemberships == 2
MaxOptions == 2

----------------------------------------------------------------------------
(* Workflow stages *)

\* on_enter of the stage at position k: k % 3 actions, numbered 10k+1, 10k+2, ...
OnEnterOf(k) == [n \in 1..(k % 3) |-> 10 * k + n]

\* WorkflowStage(name, to_enter, on_enter); to_enter is identified by the stage's position
WorkflowStage(k) == [name |-> 100 + k, to_enter |-> k, on_enter |-> OnEnterOf(k)]

\* Workflow._stages
stages == [k \in 1..NumStages |-> WorkflowStage(k)]

\* Python's None, as a stage value
None == [name |-> 0, to_enter |-> 0, on_enter |-> <<>>]

\* list.index: the first position holding an equal element
IndexOf(stage) == CHOOSE i \in 1..Len(stages) :
                      /\ stages[i] = stage
                      /\ \A j \in 1..(i - 1) : stages[j] # stage

\* _next_stage stepping over a stage
NextStageSkipping(stage) ==
    LET next_index == IndexOf(stage) + 2
    IN  IF ~(next_index <= Len(stages)) THEN None ELSE stages[next_index]

\* a successor that is the stage itself
NextStageSame(stage) == stage

\* Workflow._next_stage
NextStage(stage) ==
    LET next_index == IndexOf(stage) + 1
    IN  IF ~(next_index <= Len(stages)) THEN None ELSE stages[next_index]

\* position of a stage, None counting as 0
Pos(stage) == IF stage = None THEN 0 ELSE IndexOf(stage)

\* a call made by a pass, with its outcome; a remote effect, with the pass that caused it
Call(op, arg, out) == [op |-> op, arg |-> arg, out |-> out]
Effect(op, arg, pass) == [op |-> op, arg |-> arg, pass |-> pass]

\* the item snapshots: get is the answer of get_current_stage (a stage, None,
\* a warning or an exception), pred[k] the outcome of stages[k].to_enter
GetWarning == [name |-> -1, to_enter |-> 0, on_enter |-> <<>>]
GetRaises  == [name |-> -2, to_enter |-> 0, on_enter |-> <<>>]
Tasks == [get  : {stages[k] : k \in 1..NumStages} \cup {None, GetWarning, GetRaises},
          pred : [1..NumStages -> {"true", "false", "raise"}]]

WfInit ==
    /\ task \in Tasks
    /\ wfPc = "idle"
    /\ current_stage = None
    /\ original_stage = None
    /\ next_stage = None
    /\ actions = <<>>
    /\ applied = 0
    /\ set_ctx = None
    /\ calls = <<>>
    /\ warnings = 0
    /\ raised = FALSE
    /\ effects = <<>>
    /\ passes = 0

GetOutcome(res) == IF res = GetRaises THEN "raise"
                   ELSE IF res = GetWarning THEN "warn"
                   ELSE IF res = None THEN "none" ELSE "stage"

\* the workflow component when another component is being run
WfIdle ==
    /\ task = [get |-> None, pred |-> [k \in 1..NumStages |-> "false"]]
    /\ wfPc = "off"
    /\ current_stage = None
    /\ original_stage = None
    /\ next_stage = None
    /\ actions = <<>>
    /\ applied = 0
    /\ set_ctx = None
    /\ calls = <<>>
    /\ warnings = 0
    /\ raised = FALSE
    /\ effects = <<>>
    /\ passes = 0

\* the stage persisted without waiting for the actions
AfterActionsPersistFirst(acts, n) == "set_stage"

\* workflow.py 175-177: where the pass goes once n of the accumulated actions
\* have been called
AfterActions(acts, n) == IF n < Len(acts) THEN "apply" ELSE "set_stage"

\* get_current_stage where a warning is logged but the pass goes on as for an
\* item without a stage
WfGetCurrentStageWarningUnheeded ==
    /\ UNCHANGED notWf
    /\ wfPc \in {"idle", "done"}
    /\ passes < MaxPasses
    /\ passes' = passes + 1
    /\ calls' = <<Call("get_current_stage", 0, GetOutcome(task.get))>>
    /\ actions' = <<>>
    /\ applied' = 0
    /\ set_ctx' = None
    /\ IF task.get = GetRaises
         THEN /\ raised' = TRUE
              /\ warnings' = 0
              /\ wfPc' = "done"
              /\ current_stage' = None
              /\ original_stage' = None
              /\ next_stage' = None
       ELSE IF task.get = GetWarning
         THEN /\ raised' = FALSE
              /\ warnings' = 1
              /\ wfPc' = "loop"
              /\ current_stage' = None
              /\ original_stage' = None
              /\ next_stage' = stages[1]
         ELSE /\ raised' = FALSE
              /\ warnings' = 0
              /\ wfPc' = "loop"
              /\ current_stage' = task.get
              /\ original_stage' = task.get
              /\ next_stage' = IF task.get # None THEN NextStage(task.get) ELSE stages[1]
    /\ UNCHANGED <<task, effects>>

\* workflow.py 150-161: get_current_stage and the choice of next_stage
WfGetCurrentStage ==
    /\ UNCHANGED notWf
    /\ wfPc \in {"idle", "done"}
    /\ passes < MaxPasses
    /\ passes' = passes + 1
    /\ calls' = <<Call("get_current_stage", 0, GetOutcome(task.get))>>
    /\ actions' = <<>>
    /\ applied' = 0
    /\ set_ctx' = None
    /\ IF task.get = GetRaises
         THEN /\ raised' = TRUE
              /\ warnings' = 0
              /\ wfPc' = "done"
              /\ current_stage' = None
              /\ original_stage' = None
              /\ next_stage' = None
       ELSE IF task.get = GetWarning
         THEN /\ raised' = FALSE
              /\ warnings' = 1
              /\ wfPc' = "done"
              /\ current_stage' = None
              /\ original_stage' = None
              /\ next_stage' = None
         ELSE /\ raised' = FALSE
              /\ warnings' = 0
              /\ wfPc' = "loop"
              /\ current_stage' = task.get
              /\ original_stage' = task.get
              /\ next_stage' = IF task.get # None THEN NextStage(task.get) ELSE stages[1]
    /\ UNCHANGED <<task, effects>>

\* the exit test without the comparison to original_stage
AfterLoopNoOriginalTest(cur, orig) == IF cur = None THEN "done" ELSE "can_set"

\* workflow.py 166-167: the test made when the while loop ends
AfterLoop(cur, orig) == IF cur = None \/ cur = orig THEN "done" ELSE "can_set"

\* the while loop entering a stage whatever its entry predicate returns
WfLoopEnteringOnFalse ==
    /\ UNCHANGED notWf
    /\ wfPc = "loop"
    /\ IF next_stage = None
         THEN /\ wfPc' = AfterLoop(current_stage, original_stage)
              /\ UNCHANGED <<current_stage, next_stage, actions, calls, raised>>
         ELSE LET k   == next_stage.to_enter
                  out == task.pred[k]
              IN  /\ calls' = Append(calls, Call("to_enter", k, out))
                  /\ IF out \in {"true", "false"}
                       THEN /\ actions' = actions \o next_stage.on_enter
                            /\ current_stage' = next_stage
                            /\ next_stage' = NextStage(next_stage)
                            /\ UNCHANGED <<wfPc, raised>>
                       ELSE /\ wfPc' = "done"
                            /\ raised' = TRUE
                            /\ UNCHANGED <<current_stage, next_stage, actions>>
    /\ UNCHANGED <<task, original_stage, applied, set_ctx, warnings, effects, passes>>

\* workflow.py 162-167: one evaluation of the while condition, and the loop
\* body or the exit test that follows it
WfLoop ==
    /\ UNCHANGED notWf
    /\ wfPc = "loop"
    /\ IF next_stage = None
         THEN /\ wfPc' = AfterLoop(current_stage, original_stage)
              /\ UNCHANGED <<current_stage, next_stage, actions, calls, raised>>
         ELSE LET k   == next_stage.to_enter
                  out == task.pred[k]
              IN  /\ calls' = Append(calls, Call("to_enter", k, out))
                  /\ IF out = "true"
                       THEN /\ actions' = actions \o next_stage.on_enter
                            /\ current_stage' = next_stage
                            /\ next_stage' = NextStage(next_stage)
                            /\ UNCHANGED <<wfPc, raised>>
                     ELSE IF out = "false"
                       THEN /\ wfPc' = AfterLoop(current_stage, original_stage)
                            /\ UNCHANGED <<current_stage, next_stage, actions, raised>>
                       ELSE /\ wfPc' = "done"
                            /\ raised' = TRUE
                            /\ UNCHANGED <<current_stage, next_stage, actions>>
    /\ UNCHANGED <<task, original_stage, applied, set_ctx, warnings, effects, passes>>

\* the warning of can_set_stage logged but not obeyed
AfterCanSetIgnoringWarning(out, acts) ==
    IF out \in {"ok", "warn"} THEN AfterActions(acts, 0) ELSE "done"

\* workflow.py 172-175: where the pass goes after can_set_stage answered
AfterCanSet(out, acts) == IF out = "ok" THEN AfterActions(acts, 0) ELSE "done"

\* workflow.py 168-174: can_set_stage for the stage reached
WfCanSetStage ==
    /\ UNCHANGED notWf
    /\ wfPc = "can_set"
    /\ \E out \in {"ok", "warn", "raise"} :
        /\ calls' = Append(calls, Call("can_set_stage", Pos(current_stage), out))
        /\ IF out = "ok"
             THEN /\ set_ctx' = current_stage
                  /\ UNCHANGED <<warnings, raised>>
           ELSE IF out = "warn"
             THEN /\ warnings' = warnings + 1
                  /\ UNCHANGED <<set_ctx, raised>>
             ELSE /\ raised' = TRUE
                  /\ UNCHANGED <<set_ctx, warnings>>
        /\ wfPc' = AfterCanSet(out, actions)
    /\ UNCHANGED <<task, current_stage, original_stage, next_stage, actions,
                   applied, effects, passes>>

\* the for loop catching the exception of an action and going on
WfApplyActionSwallowingFailure ==
    /\ UNCHANGED notWf
    /\ wfPc = "apply"
    /\ applied < Len(actions)
    /\ \E out \in {"ok", "raise"} :
        LET a == actions[applied + 1]
        IN  /\ calls' = Append(calls, Call("action", a, out))
            /\ applied' = applied + 1
            /\ wfPc' = AfterActions(actions, applied + 1)
            /\ IF out = "ok"
                 THEN /\ effects' = Append(effects, Effect("action", a, passes))
                      /\ UNCHANGED raised
                 ELSE /\ raised' = TRUE
                      /\ UNCHANGED effects
    /\ UNCHANGED <<task, current_stage, original_stage, next_stage, actions,
                   set_ctx, warnings, passes>>

\* workflow.py 175-176: one iteration of the for loop over the actions
WfApplyAction ==
    /\ UNCHANGED notWf
    /\ wfPc = "apply"
    /\ applied < Len(actions)
    /\ \E out \in {"ok", "raise"} :
        LET a == actions[applied + 1]
        IN  /\ calls' = Append(calls, Call("action", a, out))
            /\ IF out = "ok"
                 THEN /\ applied' = applied + 1
                      /\ effects' = Append(effects, Effect("action", a, passes))
                      /\ wfPc' = AfterActions(actions, applied + 1)
                      /\ UNCHANGED raised
                 ELSE /\ raised' = TRUE
                      /\ wfPc' = "done"
                      /\ UNCHANGED <<applied, effects>>
    /\ UNCHANGED <<task, current_stage, original_stage, next_stage, actions,
                   set_ctx, warnings, passes>>

\* workflow.py 177: set_stage with the context can_set_stage returned
WfSetStage ==
    /\ UNCHANGED notWf
    /\ wfPc = "set_stage"
    /\ \E out \in {"ok", "raise"} :
        /\ calls' = Append(calls, Call("set_stage", Pos(set_ctx), out))
        /\ wfPc' = "done"
        /\ IF out = "ok"
             THEN /\ effects' = Append(effects, Effect("set_stage", Pos(set_ctx), passes))
                  /\ UNCHANGED raised
             ELSE /\ raised' = TRUE
                  /\ UNCHANGED effects
    /\ UNCHANGED <<task, current_stage, original_stage, next_stage, actions,
                   applied, set_ctx, warnings, passes>>

WfNext == \/ WfGetCurrentStage
          \/ WfLoop
          \/ WfCanSetStage
          \/ WfApplyAction
          \/ WfSetStage

----------------------------------------------------------------------------
(* Triager._triage_task: ignore predicates, rules, actions *)

\* the list create_action(task) returns for the rule at position r:
\* r % 3 actions, numbered 10r+1, 10r+2, ...
Produced(r) == [n \in 1..(r % 3) |-> 10 * r + n]

\* the items, with the registries they are triaged against: nIgn ignore
\* predicates and nRules (predicate, action producer) pairs are registered;
\* ign[p] and pred[r] are what the predicates answer for the item
TriagedTasks ==
    UNION {[nIgn   : {ni},
            nRules : {nr},
            ign    : [1..ni -> {"true", "false", "raise"}],
            pred   : [1..nr -> {"true", "false", "raise"}]] :
           ni \in 0..NumIgnores, nr \in 0..NumRules}

TtInit ==
    /\ ttask \in TriagedTasks
    /\ ttPc = "idle"
    /\ ignoreSeen = {}
    /\ ruleIdx = 1
    /\ tactions = <<>>
    /\ tapplied = 0
    /\ tcalls = <<>>
    /\ traised = FALSE

TtIdle ==
    /\ ttask = [nIgn |-> 0, nRules |-> 0, ign |-> <<>>, pred |-> <<>>]
    /\ ttPc = "off"
    /\ ignoreSeen = {}
    /\ ruleIdx = 1
    /\ tactions = <<>>
    /\ tapplied = 0
    /\ tcalls = <<>>
    /\ traised = FALSE

\* the actions applied as soon as some have been produced
AfterPairApplyingAtOnce(idx, n, acts) ==
    IF acts # <<>> THEN "apply"
    ELSE IF idx <= n THEN "rules" ELSE "done"

\* triager.py 157-168: where _triage_task goes when the comprehension is at
\* position idx of n pairs with acts accumulated
AfterPair(idx, n, acts) ==
    IF idx <= n THEN "rules"
    ELSE IF acts # <<>> THEN "apply" ELSE "done"

\* the ignore predicates consulted but their answer dropped
AfterIgnoreNeverSkipping(out, seen, t) ==
    IF out = "raise" THEN "done"
    ELSE IF seen = 1..t.nIgn THEN AfterPair(1, t.nRules, <<>>) ELSE "ignore"

\* triager.py 152-155: where _triage_task goes after an ignore predicate
\* answered out, seen being the ignore predicates evaluated so far
AfterIgnore(out, seen, t) ==
    IF out \in {"true", "raise"} THEN "done"
    ELSE IF seen = 1..t.nIgn THEN AfterPair(1, t.nRules, <<>>) ELSE "ignore"

\* triager.py 151-152: _triage_task is entered
TtStart ==
    /\ UNCHANGED notTt
    /\ ttPc = "idle"
    /\ ttPc' = AfterIgnore("false", {}, ttask)
    /\ UNCHANGED <<ttask, ignoreSeen, ruleIdx, tactions, tapplied, tcalls, traised>>

\* triager.py 152-155: find() evaluates the next ignore predicate, in the
\* iteration order of the set, which is any order
TtIgnore ==
    /\ UNCHANGED notTt
    /\ ttPc = "ignore"
    /\ \E p \in (1..ttask.nIgn) \ ignoreSeen :
        LET out == ttask.ign[p]
        IN  /\ tcalls' = Append(tcalls, Call("ignore", p, out))
            /\ ignoreSeen' = ignoreSeen \cup {p}
            /\ traised' = (out = "raise")
            /\ ttPc' = AfterIgnore(out, ignoreSeen \cup {p}, ttask)
    /\ UNCHANGED <<ttask, ruleIdx, tactions, tapplied>>

\* triager.py 159-160: the comprehension evaluates the predicate of the next pair
TtRule ==
    /\ UNCHANGED notTt
    /\ ttPc = "rules"
    /\ LET out == ttask.pred[ruleIdx]
       IN  /\ tcalls' = Append(tcalls, Call("predicate", ruleIdx, out))
           /\ IF out = "true"
                THEN /\ ttPc' = "produce"
                     /\ UNCHANGED <<ruleIdx, traised>>
              ELSE IF out = "false"
                THEN /\ ruleIdx' = ruleIdx + 1
                     /\ ttPc' = AfterPair(ruleIdx + 1, ttask.nRules, tactions)
                     /\ UNCHANGED traised
                ELSE /\ traised' = TRUE
                     /\ ttPc' = "done"
                     /\ UNCHANGED ruleIdx
    /\ UNCHANGED <<ttask, ignoreSeen, tactions, tapplied>>

\* the comprehension stopped at the first pair that matches
AfterProduceFirstMatchOnly(idx, n, acts) == IF acts # <<>> THEN "apply" ELSE "done"

\* triager.py 159-162: after create_action returned, the comprehension goes on
\* with the next pair
AfterProduce(idx, n, acts) == AfterPair(idx, n, acts)

\* triager.py 161: create_action(task) of the pair whose predicate matched
TtProduce ==
    /\ UNCHANGED notTt
    /\ ttPc = "produce"
    /\ \E out \in {"ok", "raise"} :
        /\ tcalls' = Append(tcalls, Call("create_action", ruleIdx, out))
        /\ IF out = "ok"
             THEN /\ tactions' = tactions \o Produced(ruleIdx)
                  /\ ruleIdx' = ruleIdx + 1
                  /\ ttPc' = AfterProduce(ruleIdx + 1, ttask.nRules,
                                          tactions \o Produced(ruleIdx))
                  /\ UNCHANGED traised
             ELSE /\ traised' = TRUE
                  /\ ttPc' = "done"
                  /\ UNCHANGED <<tactions, ruleIdx>>
    /\ UNCHANGED <<ttask, ignoreSeen, tapplied>>

\* triager.py 166-168: _apply_actions calls the next action
TtApply ==
    /\ UNCHANGED notTt
    /\ ttPc = "apply"
    /\ tapplied < Len(tactions)
    /\ \E out \in {"ok", "raise"} :
        /\ tcalls' = Append(tcalls, Call("action", tactions[tapplied + 1], out))
        /\ IF out = "ok"
             THEN /\ tapplied' = tapplied + 1
                  /\ ttPc' = IF tapplied + 1 < Len(tactions) THEN "apply" ELSE "done"
                  /\ UNCHANGED traised
             ELSE /\ traised' = TRUE
                  /\ ttPc' = "done"
                  /\ UNCHANGED tapplied
    /\ UNCHANGED <<ttask, ignoreSeen, ruleIdx, tactions>>

TtNext == \/ TtStart
          \/ TtIgnore
          \/ TtRule
          \/ TtProduce
          \/ TtApply

----------------------------------------------------------------------------
(* Triager._generate_moves, and _sort_section sending the moves *)

\* the task whose target rank is r
TaskOfRank(r) == 100 + r

\* the arguments of _generate_moves: every physical order of n tasks with the
\* target ranks 0..n-1, as built at triager.py 81
Seqs ==
    UNION {{[p \in 1..n |-> <<f[p], TaskOfRank(f[p])>>] :
             f \in {g \in [1..n -> 0..(n - 1)] :
                       \A a, b \in 1..n : a # b => g[a] # g[b]}} :
           n \in 0..MaxTasks}

\* Python's < on (rank, task) tuples
TupleLess(a, b) == a[1] < b[1] \/ (a[1] = b[1] /\ a[2] < b[2])

\* bisect.bisect_left(a, x), as a 0-based index: the binary search
RECURSIVE BisectLoop(_, _, _, _)
BisectLoop(a, x, lo, hi) ==
    IF lo < hi
      THEN LET mid == (lo + hi) \div 2
           IN  IF TupleLess(a[mid + 1], x)
                 THEN BisectLoop(a, x, mid + 1, hi)
                 ELSE BisectLoop(a, x, lo, mid)
      ELSE lo

bisect_left(a, x) == BisectLoop(a, x, 0, Len(a))

\* an insert that puts x at the end of the list
ListInsertAtEnd(a, index, x) == Append(a, x)

\* list.insert(index, x), index 0-based
ListInsert(a, index, x) == SubSeq(a, 1, index) \o <<x>> \o SubSeq(a, index + 1, Len(a))

\* a move emitted for every element after the first
NeedsMoveAlways(s, index, elem) == TRUE

\* triager.py 103: seq[index] != elem, index 0-based
NeedsMove(s, index, elem) == s[index + 1] # elem

\* the move placed on the wrong side of the preceding backbone item
MoveForWrongSide(elem, index, out) ==
    IF index = 0
      THEN <<elem[2], "before", out[index + 1][2]>>
      ELSE <<elem[2], "before", out[index][2]>>

\* triager.py 104-107: the move emitted for elem, index 0-based
MoveFor(elem, index, out) ==
    IF index = 0
      THEN <<elem[2], "before", out[index + 1][2]>>
      ELSE <<elem[2], "after", out[index][2]>>

\* position of a task in an order
PositionIn(order, t) == CHOOSE p \in 1..Len(order) : order[p] = t

\* client.reorder_in_project(task, project, reference, direction): the task is
\* taken out and re-inserted immediately before or after the reference
Reorder(order, mv) ==
    LET rest == SelectSeq(order, LAMBDA t : t # mv[1])
        r    == PositionIn(rest, mv[3])
    IN  IF mv[2] = "before"
          THEN ListInsert(rest, r - 1, mv[1])
          ELSE ListInsert(rest, r, mv[1])

MvInit ==
    /\ seq \in Seqs
    /\ output = <<>>
    /\ moves = <<>>
    /\ mvK = 2
    /\ mvPc = "start"
    /\ physical = [p \in 1..Len(seq) |-> seq[p][2]]
    /\ mvApplied = 0
    /\ sent = <<>>

MvIdle ==
    /\ seq = <<>>
    /\ output = <<>>
    /\ moves = <<>>
    /\ mvK = 2
    /\ mvPc = "off"
    /\ physical = <<>>
    /\ mvApplied = 0
    /\ sent = <<>>

\* where _sort_section is once the loop of _generate_moves is at position k
\* with mvs emitted
AfterElem(s, k, mvs) ==
    IF k <= Len(s) THEN "loop"
    ELSE IF mvs # <<>> THEN "apply" ELSE "done"

\* triager.py 99-100: moves = [], output = seq[:1]
MvStart ==
    /\ UNCHANGED notMv
    /\ mvPc = "start"
    /\ moves' = <<>>
    /\ output' = SubSeq(seq, 1, IF Len(seq) >= 1 THEN 1 ELSE 0)
    /\ mvPc' = AfterElem(seq, 2, <<>>)
    /\ UNCHANGED <<seq, mvK, physical, mvApplied, sent>>

\* triager.py 101-108: one iteration of `for elem in seq[1:]`
MvIterate ==
    /\ UNCHANGED notMv
    /\ mvPc = "loop"
    /\ LET elem  == seq[mvK]
           index == bisect_left(output, elem)
           mvs   == IF NeedsMove(seq, index, elem)
                      THEN Append(moves, MoveFor(elem, index, output))
                      ELSE moves
       IN  /\ moves' = mvs
           /\ output' = ListInsert(output, index, elem)
           /\ mvK' = mvK + 1
           /\ mvPc' = AfterElem(seq, mvK + 1, mvs)
    /\ UNCHANGED <<seq, physical, mvApplied, sent>>

\* the for loop taking the moves from the last to the first
NextMoveReversed(mvs, n) == mvs[Len(mvs) - n]

\* triager.py 83: `for task, direction, reference in moves`, the move the loop
\* takes after n iterations
NextMove(mvs, n) == mvs[n + 1]

\* triager.py 83-84: the loop takes the next move and calls
\* client.reorder_in_project with it
MvReorder ==
    /\ UNCHANGED notMv
    /\ mvPc = "apply"
    /\ mvApplied < Len(moves)
    /\ sent' = Append(sent, NextMove(moves, mvApplied))
    /\ mvPc' = "in_call"
    /\ UNCHANGED <<seq, output, moves, mvK, physical, mvApplied>>

\* triager.py 84: the call returns, the collaborator having moved the task, or
\* raises, which ends _sort_section with the remaining moves unsent
MvReorderReturns ==
    /\ UNCHANGED notMv
    /\ mvPc = "in_call"
    /\ \/ /\ physical' = Reorder(physical, sent[Len(sent)])
          /\ mvApplied' = mvApplied + 1
          /\ mvPc' = IF mvApplied + 1 < Len(moves) THEN "apply" ELSE "done"
       \/ /\ mvPc' = "failed"
          /\ UNCHANGED <<physical, mvApplied>>
    /\ UNCHANGED <<seq, output, moves, mvK, sent>>

MvNext == \/ MvStart
          \/ MvIterate
          \/ MvReorder
          \/ MvReorderReturns

----------------------------------------------------------------------------
(* Triager.triage, apply and sort: the submit loop inside                  *)
(* `with self._executor() as executor`, and the worker threads             *)

Units == 1..MaxUnits
Workers == 1..NumWorkers

PoolInit ==
    /\ mode \in {"triage", "apply", "sort"}
    /\ nUnits \in 0..MaxUnits
    /\ mainPc = "iterate"
    /\ inSubmit = 0
    /\ submitted = <<>>
    /\ queue = <<>>
    /\ workerPc = [w \in Workers |-> "idle"]
    /\ workerUnit = [w \in Workers |-> 0]
    /\ unit = [u \in Units |-> "new"]
    /\ cb = [u \in Units |-> FALSE]
    /\ logged = [u \in Units |-> 0]
    /\ sourceFailed = FALSE
    /\ completed = <<>>

PoolIdle ==
    /\ mode = "off"
    /\ nUnits = 0
    /\ mainPc = "off"
    /\ inSubmit = 0
    /\ submitted = <<>>
    /\ queue = <<>>
    /\ workerPc = [w \in Workers |-> "idle"]
    /\ workerUnit = [w \in Workers |-> 0]
    /\ unit = [u \in Units |-> "new"]
    /\ cb = [u \in Units |-> FALSE]
    /\ logged = [u \in Units |-> 0]
    /\ sourceFailed = FALSE
    /\ completed = <<>>

\* a done callback that logs nothing
LogFailureSilent(state) == 0

\* _executor.py 29-33, _log_failure: the number of error records logged for
\* a future that finished in the given state
LogFailure(state) == IF state = "failed" THEN 1 ELSE 0

\* the executor left without waiting for its threads
CanExitNoWait(q, wpc) == TRUE

\* triager.py 73, 138, 147: leaving the with block is shutdown(wait=True):
\* the work queue has been drained and every worker thread has ended
CanExit(q, wpc) == q = <<>> /\ \A w \in Workers : wpc[w] = "idle"

\* a submit that puts the unit on the work queue twice
EnqueueTwice(q, u) == Append(Append(q, u), u)

\* _executor.py 25, super().submit(fn, *args): one work item for the call is
\* put at the end of the executor's work queue
Enqueue(q, u) == Append(q, u)

\* triager.py 74-75, 139-140, 148-149 and _executor.py 25: the loop takes the
\* next item and super().submit() puts the unit on the work queue
PoolSubmit ==
    /\ UNCHANGED notPool
    /\ UNCHANGED completed
    /\ mainPc = "iterate"
    /\ Len(submitted) < nUnits
    /\ LET u == Len(submitted) + 1
       IN  /\ submitted' = Append(submitted, u)
           /\ queue' = Enqueue(queue, u)
           /\ unit' = [unit EXCEPT ![u] = "pending"]
           /\ inSubmit' = u
    /\ mainPc' = "register"
    /\ UNCHANGED <<mode, nUnits, workerPc, workerUnit, cb, logged, sourceFailed>>

\* _executor.py 26: future.add_done_callback(self._log_failure); a future
\* that is already done runs the callback at once, in the calling thread
PoolAddDoneCallback ==
    /\ UNCHANGED notPool
    /\ UNCHANGED completed
    /\ mainPc = "register"
    /\ IF unit[inSubmit] \in {"ok", "failed"}
         THEN /\ logged' = [logged EXCEPT ![inSubmit] = @ + LogFailure(unit[inSubmit])]
              /\ UNCHANGED cb
         ELSE /\ cb' = [cb EXCEPT ![inSubmit] = TRUE]
              /\ UNCHANGED logged
    /\ mainPc' = "iterate"
    /\ inSubmit' = 0
    /\ UNCHANGED <<mode, nUnits, submitted, queue, workerPc, workerUnit, unit, sourceFailed>>

\* triager.py 139, 148 (74 for sort): the iteration ends
PoolSourceExhausted ==
    /\ UNCHANGED notPool
    /\ UNCHANGED completed
    /\ mainPc = "iterate"
    /\ Len(submitted) = nUnits
    /\ mainPc' = "shutdown"
    /\ UNCHANGED <<mode, nUnits, inSubmit, submitted, queue, workerPc, workerUnit,
                   unit, cb, logged, sourceFailed>>

\* triager.py 139, 148: the source iterator raises (a fetch failed); the
\* exception leaves the with block, which still shuts the executor down
PoolSourceFails ==
    /\ UNCHANGED notPool
    /\ UNCHANGED completed
    /\ mainPc = "iterate"
    /\ mode # "sort"
    /\ sourceFailed' = TRUE
    /\ mainPc' = "shutdown"
    /\ UNCHANGED <<mode, nUnits, inSubmit, submitted, queue, workerPc, workerUnit,
                   unit, cb, logged>>

\* a worker thread takes the next unit from the work queue
WorkerTake(w) ==
    /\ UNCHANGED notPool
    /\ UNCHANGED completed
    /\ workerPc[w] = "idle"
    /\ queue # <<>>
    /\ workerUnit' = [workerUnit EXCEPT ![w] = Head(queue)]
    /\ workerPc' = [workerPc EXCEPT ![w] = "running"]
    /\ unit' = [unit EXCEPT ![Head(queue)] = "running"]
    /\ queue' = Tail(queue)
    /\ UNCHANGED <<mode, nUnits, mainPc, inSubmit, submitted, cb, logged, sourceFailed>>

\* the worker thread runs the unit (_triage_task, the workflow or
\* _sort_section): it returns or raises, and the future is set done
WorkerRun(w) ==
    /\ UNCHANGED notPool
    /\ workerPc[w] = "running"
    /\ \E out \in {"ok", "failed"} :
        unit' = [unit EXCEPT ![workerUnit[w]] = out]
    /\ completed' = Append(completed, workerUnit[w])
    /\ workerPc' = [workerPc EXCEPT ![w] = "callbacks"]
    /\ UNCHANGED <<mode, nUnits, mainPc, inSubmit, submitted, queue, workerUnit, cb,
                   logged, sourceFailed>>

\* _executor.py 29-33: the worker thread runs the done callbacks of the
\* future it has just set done, then is free again
WorkerCallbacks(w) ==
    /\ UNCHANGED notPool
    /\ UNCHANGED completed
    /\ workerPc[w] = "callbacks"
    /\ LET u == workerUnit[w]
       IN  logged' = [logged EXCEPT ![u] = IF cb[u] THEN @ + LogFailure(unit[u]) ELSE @]
    /\ workerPc' = [workerPc EXCEPT ![w] = "idle"]
    /\ workerUnit' = [workerUnit EXCEPT ![w] = 0]
    /\ UNCHANGED <<mode, nUnits, mainPc, inSubmit, submitted, queue, unit, cb, sourceFailed>>

\* triager.py 73-75, 138-140, 147-149: the with block is left and the method
\* returns, or lets the exception of the source through
PoolReturn ==
    /\ UNCHANGED notPool
    /\ UNCHANGED completed
    /\ mainPc = "shutdown"
    /\ CanExit(queue, workerPc)
    /\ mainPc' = IF sourceFailed THEN "propagated" ELSE "returned"
    /\ UNCHANGED <<mode, nUnits, inSubmit, submitted, queue, workerPc, workerUnit,
                   unit, cb, logged, sourceFailed>>

PoolNext == \/ PoolSubmit
            \/ PoolAddDoneCallback
            \/ PoolSourceExhausted
            \/ PoolSourceFails
            \/ \E w \in Workers : WorkerTake(w)
            \/ \E w \in Workers : WorkerRun(w)
            \/ \E w \in Workers : WorkerCallbacks(w)
            \/ PoolReturn

----------------------------------------------------------------------------
(* The blob-backed stage manager, workflows/external.py *)

\* the manager's _name, and the name of another workflow stored in the same blob
WorkflowName == "External workflow"
OtherWorkflowName == "other workflow"

\* the names of the manager's _stages, in order, and a stored name that is no stage
StageNames == <<"A", "B">>
UnknownStageName == "Z"

\* Python's None where a string stands (a gid, a stage name), JSON null where a
\* mapping stands, and task.external being None
NoneStr == "None"
Null == [null |-> "null"]
NoExternal == [none |-> "external"]

\* the empty dict
EmptyMap == [k \in {} |-> NoneStr]

\* models.py 234-242: External(gid, data)
External(gid, data) == [gid |-> gid, data |-> data]

\* `d or {}` for a dict or None
OrEmpty(d) == IF d = Null \/ d = EmptyMap THEN EmptyMap ELSE d

\* dict.get(key, default)
DictGet(d, key, default) == IF key \in DOMAIN d THEN d[key] ELSE default

\* {**d, key: value}
DictWith(d, key, value) ==
    [k \in (DOMAIN d) \cup {key} |-> IF k = key THEN value ELSE d[k]]

\* the maps stored under "workflows", the values of the other top-level key,
\* the data of a blob and the values of task.external
WorkflowMaps ==
    {DictWith(m, WorkflowName, s) : m \in {EmptyMap}, s \in {"A", "B", UnknownStageName}}
    \cup {DictWith(DictWith(EmptyMap, OtherWorkflowName, o), WorkflowName, s) :
              o \in {"P", "Q"}, s \in {"A", "B", UnknownStageName}}
    \cup {DictWith(EmptyMap, OtherWorkflowName, o) : o \in {"P", "Q"}}
    \cup {EmptyMap}
OtherValues == {[v |-> "x"], [v |-> "y"]}
BlobData ==
    {Null, EmptyMap}
    \cup {DictWith(EmptyMap, "workflows", m) : m \in WorkflowMaps \cup {Null}}
    \cup {DictWith(EmptyMap, "other_key", o) : o \in OtherValues}
    \cup {DictWith(DictWith(EmptyMap, "other_key", o), "workflows", m) :
              o \in OtherValues, m \in WorkflowMaps \cup {Null}}
Externals == {NoExternal} \cup {External(g, d) : g \in {NoneStr, "g1"}, d \in BlobData}

\* a lookup that falls back on the last stage when no stage has the name
FindByNameDefaulting(names, name) ==
    IF \E i \in 1..Len(names) : names[i] = name THEN name ELSE names[Len(names)]

\* _itertools.py 33-43, find_by_name(self._stages, stage_name): the name of the
\* first stage with that name, or None
FindByName(names, name) ==
    IF \E i \in 1..Len(names) : names[i] = name THEN name ELSE NoneStr

\* external.py 62: external = task.external or External(None, {})
ExternalOf(ext) == IF ext = NoExternal THEN External(NoneStr, EmptyMap) ELSE ext

\* external.py 63: workflows = (external.data or {}).get("workflows", {})
WorkflowsOf(ext) == DictGet(OrEmpty(ext.data), "workflows", EmptyMap)

\* a merge that keeps only this workflow's entry
NewWorkflowsFresh(workflows, stage_name) == DictWith(EmptyMap, WorkflowName, stage_name)

\* external.py 85: {**context.workflows, self._name: context.stage_name}
NewWorkflows(workflows, stage_name) == DictWith(workflows, WorkflowName, stage_name)

\* a set_stage that merges its entry into the blob as it is remotely at the
\* time of the write
NewExternalFromRemote(context) ==
    External(ExternalOf(remote_external).gid,
             DictWith(OrEmpty(ExternalOf(remote_external).data), "workflows",
                      NewWorkflows(WorkflowsOf(ExternalOf(remote_external)),
                                   context.stage_name)))

\* external.py 83-87: the External that set_stage hands to client.set_external
NewExternal(context) ==
    External(context.external.gid,
             DictWith(OrEmpty(context.external.data), "workflows",
                      NewWorkflows(context.workflows, context.stage_name)))

\* the stage name the other workflow persists
ConcurrentStageName == "R"

\* external.py 83-87 for the workflow named OtherWorkflowName: the External it
\* writes when its snapshot is ext
ConcurrentExternal(ext) ==
    External(ext.gid,
             DictWith(OrEmpty(ext.data), "workflows",
                      DictWith(WorkflowsOf(ext), OtherWorkflowName, ConcurrentStageName)))

\* the external a SetExternal action of the workflow carries
ActionExternal == External("g1", DictWith(EmptyMap, "other_key", [v |-> "set"]))

NoContext == [external |-> NoExternal, workflows |-> EmptyMap, stage_name |-> NoneStr]

BlobInit ==
    /\ task_external \in Externals
    /\ remote_external = task_external
    /\ blobPc = "get"
    /\ blob_stage = NoneStr
    /\ blob_context = NoContext
    /\ set_external_calls = <<>>
    /\ overwritten = <<>>

BlobIdle ==
    /\ task_external = NoExternal
    /\ remote_external = NoExternal
    /\ blobPc = "off"
    /\ blob_stage = NoneStr
    /\ blob_context = NoContext
    /\ set_external_calls = <<>>
    /\ overwritten = <<>>

\* external.py 59-68, get_current_stage; .get on a "workflows" entry that is
\* null raises AttributeError
BlobGetCurrentStage ==
    /\ UNCHANGED notBlob
    /\ blobPc = "get"
    /\ LET external  == ExternalOf(task_external)
           workflows == WorkflowsOf(external)
       IN  IF workflows = Null
             THEN /\ blobPc' = "raised"
                  /\ UNCHANGED <<blob_stage, blob_context>>
             ELSE /\ blob_stage' = FindByName(StageNames, DictGet(workflows, WorkflowName, NoneStr))
                  /\ blob_context' = [external |-> external, workflows |-> workflows,
                                      stage_name |-> NoneStr]
                  /\ blobPc' = "can_set"
    /\ UNCHANGED <<task_external, remote_external, set_external_calls, overwritten>>

\* external.py 70-78, can_set_stage for the stage the workflow advances to
BlobCanSetStage ==
    /\ UNCHANGED notBlob
    /\ blobPc = "can_set"
    /\ \E i \in 1..Len(StageNames) :
        blob_context' = [blob_context EXCEPT !.stage_name = StageNames[i]]
    /\ blobPc' = "actions"
    /\ UNCHANGED <<task_external, remote_external, blob_stage, set_external_calls, overwritten>>

\* workflow.py 175-176 with actions.py 143-144: the on_enter actions are
\* applied, and one of them may be a SetExternal, which replaces the remote blob
BlobApplyActions ==
    /\ UNCHANGED notBlob
    /\ blobPc = "actions"
    /\ \/ remote_external' = ActionExternal
       \/ UNCHANGED remote_external
    /\ blobPc' = "set"
    /\ UNCHANGED <<task_external, blob_stage, blob_context, set_external_calls, overwritten>>

\* external.py 80-88, set_stage, and client.py 243-245, set_external
BlobSetStage ==
    /\ UNCHANGED notBlob
    /\ blobPc = "set"
    /\ set_external_calls' = Append(set_external_calls, NewExternal(blob_context))
    /\ overwritten' = Append(overwritten, remote_external)
    /\ remote_external' = NewExternal(blob_context)
    /\ blobPc' = "done"
    /\ UNCHANGED <<task_external, blob_stage, blob_context>>

\* a pass of another blob-backed workflow on the same item, between the
\* snapshot and the write of this one: external.py 59-88 run by the workflow
\* named OtherWorkflowName on the live blob, persisting its own stage
BlobConcurrentSetStage ==
    /\ UNCHANGED notBlob
    /\ blobPc \in {"can_set", "actions", "set"}
    /\ WorkflowsOf(ExternalOf(remote_external)) # Null
    /\ remote_external' = ConcurrentExternal(ExternalOf(remote_external))
    /\ UNCHANGED <<task_external, blobPc, blob_stage, blob_context, set_external_calls,
                   overwritten>>

BlobNext == \/ BlobGetCurrentStage
            \/ BlobCanSetStage
            \/ BlobApplyActions
            \/ BlobSetStage
            \/ BlobConcurrentSetStage

----------------------------------------------------------------------------
(* ModifiedSinceSource, sources.py 81-136, over a project whose tasks are
   modified while the source polls, is stopped and is constructed again *)

MsTasks == 1..NumMsTasks
NeverModified == -1

\* a task as a fetch returns it: its id and the time of its last modification
Snapshot(t, at) == [task |-> t, modified_at |-> at]

\* the list that a comprehension over the ids k..NumMsTasks builds from the
\* tasks modified at or after `since`
RECURSIVE ModifiedFrom(_, _, _)
ModifiedFrom(k, at, since) ==
    IF k > NumMsTasks THEN <<>>
    ELSE IF at[k] >= since
      THEN <<Snapshot(k, at[k])>> \o ModifiedFrom(k + 1, at, since)
      ELSE ModifiedFrom(k + 1, at, since)

\* client.py 74-98, tasks_by_project(project, only_incomplete=False,
\* modified_since=since): the whole list, built before it is returned
TasksByProject(at, since) == ModifiedFrom(1, at, since)

\* where the generator is once it has `tasks` left to yield
AfterYield(tasks) == IF tasks = <<>> THEN "sleep" ELSE "yield"

MsInit ==
    /\ clock = 0
    /\ modified_at = [t \in MsTasks |-> NeverModified]
    /\ last_run = 0
    /\ msPc = "poll"
    /\ modified_since = 0
    /\ now = 0
    /\ batch = <<>>
    /\ yielded = [t \in MsTasks |-> NeverModified]
    /\ polls = <<>>
    /\ restarts = 0
    /\ constructed = <<0>>

MsIdle ==
    /\ clock = 0
    /\ modified_at = [t \in MsTasks |-> NeverModified]
    /\ last_run = 0
    /\ msPc = "off"
    /\ modified_since = 0
    /\ now = 0
    /\ batch = <<>>
    /\ yielded = [t \in MsTasks |-> NeverModified]
    /\ polls = <<>>
    /\ restarts = 0
    /\ constructed = <<0>>

\* a user of the project modifies a task
MsModify(t) ==
    /\ UNCHANGED notMs
    /\ msPc # "off"
    /\ modified_at[t] # clock
    /\ modified_at' = [modified_at EXCEPT ![t] = clock]
    /\ UNCHANGED <<clock, last_run, msPc, modified_since, now, batch, yielded, polls, restarts, constructed>>

\* time passes
MsTick ==
    /\ UNCHANGED notMs
    /\ msPc # "off"
    /\ clock < MaxTime
    /\ clock' = clock + 1
    /\ UNCHANGED <<modified_at, last_run, msPc, modified_since, now, batch, yielded, polls, restarts, constructed>>

\* sources.py 130: modified_since, now = self._get_last_run(), datetime.utcnow()
MsReadLastRun ==
    /\ UNCHANGED notMs
    /\ msPc = "poll"
    /\ Len(polls) < MaxPolls
    /\ modified_since' = last_run
    /\ now' = clock
    /\ msPc' = "fetch"
    /\ UNCHANGED <<clock, modified_at, last_run, batch, yielded, polls, restarts, constructed>>

\* sources.py 131-133: tasks = client.tasks_by_project(...)
MsFetch ==
    /\ UNCHANGED notMs
    /\ msPc = "fetch"
    /\ batch' = TasksByProject(modified_at, modified_since)
    /\ polls' = Append(polls, [modified_since |-> modified_since, now |-> now,
                             source |-> restarts])
    /\ msPc' = "set"
    /\ UNCHANGED <<clock, modified_at, last_run, modified_since, now, yielded, restarts, constructed>>

\* the timestamp persisted being the time after the fetch returned
MsSetLastRunAfterFetch ==
    /\ UNCHANGED notMs
    /\ msPc = "set"
    /\ last_run' = clock
    /\ msPc' = AfterYield(batch)
    /\ UNCHANGED <<clock, modified_at, modified_since, now, batch, yielded, polls, restarts, constructed>>

\* sources.py 134: self._set_last_run(now), the hook persisting the timestamp
MsSetLastRun ==
    /\ UNCHANGED notMs
    /\ msPc = "set"
    /\ last_run' = now
    /\ msPc' = AfterYield(batch)
    /\ UNCHANGED <<clock, modified_at, modified_since, now, batch, yielded, polls, restarts, constructed>>

\* sources.py 135: yield from tasks, one task handed to the triager
MsYield ==
    /\ UNCHANGED notMs
    /\ msPc = "yield"
    /\ yielded' = [yielded EXCEPT ![Head(batch).task] = Head(batch).modified_at]
    /\ batch' = Tail(batch)
    /\ msPc' = AfterYield(Tail(batch))
    /\ UNCHANGED <<clock, modified_at, last_run, modified_since, now, polls, restarts, constructed>>

\* sources.py 136: sleep(self.POLLING_DELAY.total_seconds())
MsSleep ==
    /\ UNCHANGED notMs
    /\ msPc = "sleep"
    /\ clock < MaxTime
    /\ clock' = clock + 1
    /\ msPc' = "poll"
    /\ UNCHANGED <<modified_at, last_run, modified_since, now, batch, yielded, polls, restarts, constructed>>

\* the triager process is stopped: the generator and its locals are gone, what
\* the hooks persisted stays
MsStop ==
    /\ UNCHANGED notMs
    /\ msPc \in {"poll", "fetch", "set", "yield", "sleep"}
    /\ restarts < MaxRestarts
    /\ msPc' = "stopped"
    /\ modified_since' = 0
    /\ now' = 0
    /\ batch' = <<>>
    /\ UNCHANGED <<clock, modified_at, last_run, yielded, polls, restarts, constructed>>

\* the triager is started again: sources.py 105-107, __init__ calls
\* self._set_last_run(datetime.utcnow()), then iterator() is entered
MsRestart ==
    /\ UNCHANGED notMs
    /\ msPc = "stopped"
    /\ last_run' = clock
    /\ constructed' = Append(constructed, clock)
    /\ restarts' = restarts + 1
    /\ msPc' = "poll"
    /\ UNCHANGED <<clock, modified_at, modified_since, now, batch, yielded, polls>>

MsNext == \/ \E t \in MsTasks : MsModify(t)
          \/ MsTick
          \/ MsReadLastRun
          \/ MsFetch
          \/ MsSetLastRun
          \/ MsYield
          \/ MsSleep
          \/ MsStop
          \/ MsRestart

----------------------------------------------------------------------------
(* The predicate combinators _And, _Or, _Not, predicates.py 68-106 *)

\* the predicates supplied by the user, and what one answers for the item:
\* it returns True or False, or raises
Leaves == {"a", "b"}
Outcomes == {"true", "false", "raise"}

Leaf(name) == [op |-> "leaf", name |-> name]
And(first, second) == [op |-> "and", first |-> first, second |-> second]
Or(first, second) == [op |-> "or", first |-> first, second |-> second]
Not(inner) == [op |-> "not", predicate |-> inner]

\* the predicates built from the user's with n uses of &, | and ~
\* (predicates.py 33-61)
RECURSIVE PredicatesWith(_)
PredicatesWith(n) ==
    IF n = 0 THEN {Leaf(l) : l \in Leaves}
    ELSE {Not(p) : p \in PredicatesWith(n - 1)}
         \cup UNION {{And(p, q) : p \in PredicatesWith(i), q \in PredicatesWith(n - 1 - i)}
                     \cup {Or(p, q) : p \in PredicatesWith(i), q \in PredicatesWith(n - 1 - i)}
                     : i \in 0..(n - 1)}

Predicates == UNION {PredicatesWith(n) : n \in 0..MaxOperators}

\* the result of a call: the value returned (or "raise") and the user
\* predicates invoked, in order
Result(value, invoked) == [value |-> value, invoked |-> invoked]

\* an `and` that evaluates its second operand whatever the first returned
AndNeedsSecondAlways(first_value) == first_value # "raise"

\* predicates.py 76, `x and y`: y is evaluated when x is true
AndNeedsSecond(first_value) == first_value = "true"

\* predicates.py 90, `x or y`: y is evaluated when x is false
OrNeedsSecond(first_value) == first_value = "false"

\* predicates.py 104, `not x`
NotValue(value) ==
    IF value = "raise" THEN "raise" ELSE IF value = "true" THEN "false" ELSE "true"

\* predicates.py 75-76, 89-90, 103-104: __call__ of a predicate on the item
RECURSIVE Evaluate(_, _)
Evaluate(p, ans) ==
    IF p.op = "leaf" THEN Result(ans[p.name], <<p.name>>)
    ELSE IF p.op = "not"
      THEN LET r == Evaluate(p.predicate, ans)
           IN  Result(NotValue(r.value), r.invoked)
    ELSE LET r1 == Evaluate(p.first, ans)
             needs == IF p.op = "and" THEN AndNeedsSecond(r1.value)
                                     ELSE OrNeedsSecond(r1.value)
         IN  IF needs
               THEN LET r2 == Evaluate(p.second, ans)
                    IN  Result(r2.value, r1.invoked \o r2.invoked)
               ELSE r1

NoResult == Result("none", <<>>)

PredInit ==
    /\ predicate \in Predicates
    /\ answers \in [Leaves -> Outcomes]
    /\ predPc = "ready"
    /\ result = NoResult

PredIdle ==
    /\ predicate = Leaf("a")
    /\ answers = [n \in Leaves |-> "false"]
    /\ predPc = "off"
    /\ result = NoResult

\* the triager or a workflow calls the predicate on the item
PredCall ==
    /\ UNCHANGED notPred
    /\ predPc = "ready"
    /\ result' = Evaluate(predicate, answers)
    /\ predPc' = "called"
    /\ UNCHANGED <<predicate, answers>>

PredNext == PredCall

----------------------------------------------------------------------------
(* The duration-qualified predicates, predicates.py 131-143 and 220-231 *)

Times == 0..MaxClock

\* a History Entry (story): when it was created and whether the predicate's
\* _story_matcher accepts it
Story(created_at, matches) == [created_at |-> created_at, matches |-> matches]

\* client.stories_by_task(task): the stories of a task created at `created`,
\* oldest first, none older than the task or later than `until`
StoriesOf(created, until) ==
    UNION {{s \in [1..n -> {Story(t, m) : t \in created..until, m \in BOOLEAN}] :
                \A i \in 1..(n - 1) : s[i].created_at <= s[i + 1].created_at}
           : n \in 0..MaxStories}

\* predicates.py 138, find(reversed(stories), story_matcher): the position of
\* the first accepted story seen from the end of the list, 0 for None
RECURSIVE FindReversed(_, _)
FindReversed(stories, n) ==
    IF n = 0 THEN 0
    ELSE IF stories[n].matches THEN n
    ELSE FindReversed(stories, n - 1)

\* a comparison that also accepts a time equal to the duration
ExceedsOrEquals(elapsed, duration) == elapsed >= duration

\* predicates.py 141, 143: `_now() - created_at > duration`
Exceeds(elapsed, duration) == elapsed > duration

\* predicates.py 131-143, _for_at_least
ForAtLeast(created, stories, at, duration) ==
    LET story == FindReversed(stories, Len(stories))
    IN  IF story # 0
          THEN Exceeds(at - stories[story].created_at, duration)
          ELSE Exceeds(at - created, duration)

\* predicates.py 224-231, _EnumValuePredicate.__call__
DurationPredicate(in_state, created, stories, at, duration) ==
    IF ~in_state THEN FALSE
    ELSE IF duration = 0 THEN TRUE
    ELSE ForAtLeast(created, stories, at, duration)

FaInit ==
    /\ fa_now \in Times
    /\ fa_created_at \in 0..fa_now
    /\ fa_stories \in StoriesOf(fa_created_at, fa_now)
    /\ fa_duration \in 0..MaxClock
    /\ fa_in_state \in BOOLEAN
    /\ faPc = "ready"
    /\ fa_result = "none"

FaIdle ==
    /\ fa_now = 0
    /\ fa_created_at = 0
    /\ fa_stories = <<>>
    /\ fa_duration = 0
    /\ fa_in_state = FALSE
    /\ faPc = "off"
    /\ fa_result = "none"

\* the predicate is called on the task
FaCall ==
    /\ UNCHANGED notFa
    /\ faPc = "ready"
    /\ fa_result' = IF DurationPredicate(fa_in_state, fa_created_at, fa_stories,
                                         fa_now, fa_duration)
                      THEN "true" ELSE "false"
    /\ faPc' = "called"
    /\ UNCHANGED <<fa_now, fa_created_at, fa_stories, fa_duration, fa_in_state>>

FaNext == FaCall

----------------------------------------------------------------------------
(* DueDateSorter and StartDateSorter, sorters.py 126-145 and 219-238 *)

\* date.min.toordinal() and date.max.toordinal(), the ordinals of 0001-01-01
\* and 9999-12-31
MinOrdinal == 1
MaxOrdinal == 3652059

\* None as the date of a task without the date
NoDate == 0

\* the dates of the tasks: the NumDates earliest and the NumDates latest dates
Dates == (MinOrdinal..(MinOrdinal + NumDates - 1))
         \cup ((MaxOrdinal - NumDates + 1)..MaxOrdinal)

\* the tasks of a section, as far as the sorters read them
SortedTasks == [due_on : Dates \cup {NoDate}, start_on : Dates \cup {NoDate}]
TaskLists == UNION {[1..n -> SortedTasks] : n \in 0..MaxSorted}

\* the attribute a sorter reads: due_on for DueDateSorter, start_on for
\* StartDateSorter (sorters.py 143-144, 236-237)
DateOf(kind, t) == IF kind = "due" THEN t.due_on ELSE t.start_on

\* sorters.py 137, 230: self.order
Order(ascending) == IF ascending THEN 1 ELSE -1

\* sorters.py 138-140, 231-233: self.missing_value, with ^ as exclusive or
MissingValue(ascending, missing_first) ==
    IF ascending # missing_first THEN MaxOrdinal ELSE MinOrdinal

\* sorters.py 142-145, 235-238: key(task), a tuple of one int
Key(kind, ascending, missing_first, t) ==
    IF DateOf(kind, t) # NoDate
      THEN <<Order(ascending) * DateOf(kind, t)>>
      ELSE <<MissingValue(ascending, missing_first)>>

\* sorted(): the position among the first n sorted items after which the
\* item with key k goes, behind every item whose key is not greater
RECURSIVE InsertAt(_, _, _, _)
InsertAt(keys, order, k, n) ==
    IF n = 0 THEN 0
    ELSE IF keys[order[n]][1] <= k[1] THEN n
    ELSE InsertAt(keys, order, k, n - 1)

\* sorters.py 53, sorted(tasks, key=self.key): the positions of the first n
\* tasks in ascending order of their keys, equal keys in their given order
RECURSIVE StableSort(_, _)
StableSort(keys, n) ==
    IF n = 0 THEN <<>>
    ELSE LET order == StableSort(keys, n - 1)
             at    == InsertAt(keys, order, keys[n], n - 1)
         IN  SubSeq(order, 1, at) \o <<n>> \o SubSeq(order, at + 1, n - 1)

\* Sorter.sort for a date sorter
SortByDate(kind, ascending, missing_first, tasks) ==
    LET keys  == [i \in 1..Len(tasks) |-> Key(kind, ascending, missing_first, tasks[i])]
        order == StableSort(keys, Len(tasks))
    IN  [p \in 1..Len(tasks) |-> tasks[order[p]]]

SoInit ==
    /\ so_kind \in {"due", "start"}
    /\ so_ascending \in BOOLEAN
    /\ so_missing_first \in BOOLEAN
    /\ so_tasks \in TaskLists
    /\ so_sorted = <<>>
    /\ soPc = "ready"

SoIdle ==
    /\ so_kind = "due"
    /\ so_ascending = TRUE
    /\ so_missing_first = FALSE
    /\ so_tasks = <<>>
    /\ so_sorted = <<>>
    /\ soPc = "off"

\* triager.py 80: sorted_tasks = sorter.sort(tasks)
SoSort ==
    /\ UNCHANGED notSo
    /\ soPc = "ready"
    /\ so_sorted' = SortByDate(so_kind, so_ascending, so_missing_first, so_tasks)
    /\ soPc' = "sorted"
    /\ UNCHANGED <<so_kind, so_ascending, so_missing_first, so_tasks>>

SoNext == SoSort

----------------------------------------------------------------------------
(* PollingSource.iterator, sources.py 67-78: a generator driven by next() *)

\* an event of the run: a call to the collaborator, a task handed to the
\* consumer, or a sleep
Event(op, arg) == [op |-> op, arg |-> arg]

\* the task at position i of the list returned by the f-th fetch
TaskOfFetch(f, i) == 10 * f + i

\* the list returned by the f-th fetch when it holds n tasks
FetchedList(f, n) == [i \in 1..n |-> TaskOfFetch(f, i)]

\* a generator that ends after every list
AfterListAlwaysEnds(repeat) == "exhausted"

\* sources.py 69-78: once a list has been yielded in full, the generator body
\* ends when repeat_after is None, and sleeps before the next fetch otherwise
AfterList(repeat) == IF repeat THEN "sleep" ELSE "exhausted"

PsInit ==
    /\ ps_repeat \in BOOLEAN
    /\ psPc = "created"
    /\ ps_list = <<>>
    /\ ps_fetches = 0
    /\ ps_requests = 0
    /\ ps_trace = <<>>

PsIdle ==
    /\ ps_repeat = FALSE
    /\ psPc = "off"
    /\ ps_list = <<>>
    /\ ps_fetches = 0
    /\ ps_requests = 0
    /\ ps_trace = <<>>

\* the consumer (the for loop of triage() or apply()) asks for the next task:
\* the generator body starts, or goes on after the yield it was suspended at
PsRequestNext ==
    /\ UNCHANGED notPs
    /\ psPc \in {"created", "suspended"}
    /\ ps_requests' = ps_requests + 1
    /\ psPc' = IF psPc = "created" THEN "project" ELSE "yield_from"
    /\ UNCHANGED <<ps_repeat, ps_list, ps_fetches, ps_trace>>

\* sources.py 68: project = client.project_by_gid(self.project_gid), which
\* may raise
PsProjectByGid ==
    /\ UNCHANGED notPs
    /\ psPc = "project"
    /\ ps_trace' = Append(ps_trace, Event("project_by_gid", 0))
    /\ \/ psPc' = "fetch"
       \/ psPc' = "raised"
    /\ UNCHANGED <<ps_repeat, ps_list, ps_fetches, ps_requests>>

\* sources.py 70-72, 75-77: client.tasks_by_project(...) returns a list, or
\* raises
PsFetch ==
    /\ UNCHANGED notPs
    /\ psPc = "fetch"
    /\ ps_fetches < MaxFetches
    /\ ps_fetches' = ps_fetches + 1
    /\ \/ \E n \in 0..MaxList :
            /\ ps_list' = FetchedList(ps_fetches + 1, n)
            /\ ps_trace' = Append(ps_trace, Event("tasks_by_project", n))
            /\ psPc' = "yield_from"
       \/ /\ ps_trace' = Append(ps_trace, Event("tasks_by_project", -1))
          /\ psPc' = "raised"
          /\ UNCHANGED ps_list
    /\ UNCHANGED <<ps_repeat, ps_requests>>

\* sources.py 70, 75, `yield from`: the next task of the list is handed to
\* the consumer and the generator is suspended
PsYield ==
    /\ UNCHANGED notPs
    /\ psPc = "yield_from"
    /\ ps_list # <<>>
    /\ ps_trace' = Append(ps_trace, Event("yield", Head(ps_list)))
    /\ ps_list' = Tail(ps_list)
    /\ psPc' = "suspended"
    /\ UNCHANGED <<ps_repeat, ps_fetches, ps_requests>>

\* sources.py 70-72, 75-78: the list is used up
PsListDone ==
    /\ UNCHANGED notPs
    /\ psPc = "yield_from"
    /\ ps_list = <<>>
    /\ psPc' = AfterList(ps_repeat)
    /\ UNCHANGED <<ps_repeat, ps_list, ps_fetches, ps_requests, ps_trace>>

\* sources.py 78: sleep(self.repeat_after.total_seconds()), then the loop
\* goes round
PsSleep ==
    /\ UNCHANGED notPs
    /\ psPc = "sleep"
    /\ ps_trace' = Append(ps_trace, Event("sleep", 0))
    /\ psPc' = "fetch"
    /\ UNCHANGED <<ps_repeat, ps_list, ps_fetches, ps_requests>>

PsNext == \/ PsRequestNext
          \/ PsProjectByGid
          \/ PsFetch
          \/ PsYield
          \/ PsListDone
          \/ PsSleep

----------------------------------------------------------------------------
(* The stage managers that resolve the current stage from a persisted label,
   external.py 59-68 (the entry of the workflow in the External Blob) and
   section.py 55-64 (the name of the section the item is in), under the
   Workflow pass of workflow.py 150-177 *)

ProjectName == "Project"
OtherProjectName == "other project"

\* the memberships of an item: the project and the section it is in there
Membership == [project : {ProjectName, OtherProjectName},
               section : {StageNames[1], StageNames[2], UnknownStageName}]
MembershipLists == UNION {[1..n -> Membership] : n \in 0..MaxMemberships}

\* the item snapshots handed to a pass, by the kind of workflow run on them
LabelledTasks ==
    {[kind |-> "external", external |-> e] : e \in Externals}
    \cup {[kind |-> "section", memberships |-> ms] : ms \in MembershipLists}

\* what get_current_stage returns: a warning string, or a stage (None when
\* there is none) with a context; or it raises
StageWarning == [outcome |-> "warn", stage |-> NoneStr, context |-> NoContext]
StageRaises == [outcome |-> "raise", stage |-> NoneStr, context |-> NoContext]
StageResolved(stage, context) == [outcome |-> "ok", stage |-> stage, context |-> context]

\* external.py 59-68, get_current_stage
ExternalGetCurrentStage(t) ==
    LET external  == ExternalOf(t.external)
        workflows == WorkflowsOf(external)
    IN  IF workflows = Null THEN StageRaises
        ELSE StageResolved(FindByName(StageNames, DictGet(workflows, WorkflowName, NoneStr)),
                           [external |-> external, workflows |-> workflows])

\* section.py 58-60: first_or_none of the memberships in the project, as its
\* position in the list, 0 when there is none
FirstMembership(ms) ==
    IF \E n \in 1..Len(ms) : ms[n].project = ProjectName
      THEN CHOOSE n \in 1..Len(ms) :
               /\ ms[n].project = ProjectName
               /\ \A m \in 1..(n - 1) : ms[m].project # ProjectName
      ELSE 0

\* section.py 55-64, get_current_stage
SectionGetCurrentStage(t) ==
    LET n == FirstMembership(t.memberships)
    IN  IF n = 0 THEN StageWarning
        ELSE StageResolved(FindByName(StageNames, t.memberships[n].section),
                           [project |-> t.memberships[n].project])

GetCurrentStage(t) ==
    IF t.kind = "external" THEN ExternalGetCurrentStage(t) ELSE SectionGetCurrentStage(t)

\* Workflow._next_stage over the stage names, None after the last
NextStageName(name) ==
    LET next_index == (CHOOSE i \in 1..Len(StageNames) : StageNames[i] = name) + 1
    IN  IF ~(next_index <= Len(StageNames)) THEN NoneStr ELSE StageNames[next_index]

\* workflow.py 157-160: the candidate-next stage of a pass
FirstCandidate(stage) == IF stage # NoneStr THEN NextStageName(stage) ELSE StageNames[1]

\* the on_enter actions of the stage of that name
OnEnterNamed(name) == <<name>>

LblInit ==
    /\ lbl_task \in LabelledTasks
    /\ lblPc = "get"
    /\ lbl_result = StageWarning
    /\ lbl_current = NoneStr
    /\ lbl_next = NoneStr
    /\ lbl_actions = <<>>
    /\ lbl_applied = <<>>
    /\ lbl_persisted = NoneStr

LblIdle ==
    /\ lbl_task = [kind |-> "section", memberships |-> <<>>]
    /\ lblPc = "off"
    /\ lbl_result = StageWarning
    /\ lbl_current = NoneStr
    /\ lbl_next = NoneStr
    /\ lbl_actions = <<>>
    /\ lbl_applied = <<>>
    /\ lbl_persisted = NoneStr

\* workflow.py 150-161: get_current_stage and the choice of next_stage
LblGetCurrentStage ==
    /\ UNCHANGED notLbl
    /\ lblPc = "get"
    /\ LET res == GetCurrentStage(lbl_task)
       IN  /\ lbl_result' = res
           /\ IF res.outcome = "ok"
                THEN /\ lbl_current' = res.stage
                     /\ lbl_next' = FirstCandidate(res.stage)
                     /\ lblPc' = "loop"
                ELSE /\ lblPc' = "done"
                     /\ UNCHANGED <<lbl_current, lbl_next>>
    /\ UNCHANGED <<lbl_task, lbl_actions, lbl_applied, lbl_persisted>>

\* workflow.py 166-167: the test made when the while loop ends
LblAfterLoop(cur, orig) == IF cur = NoneStr \/ cur = orig THEN "done" ELSE "advance"

\* workflow.py 162-167: one evaluation of the while condition, and the loop
\* body or the exit test that follows it
LblLoop ==
    /\ UNCHANGED notLbl
    /\ lblPc = "loop"
    /\ IF lbl_next = NoneStr
         THEN /\ lblPc' = LblAfterLoop(lbl_current, lbl_result.stage)
              /\ UNCHANGED <<lbl_current, lbl_next, lbl_actions>>
         ELSE \E to_enter \in BOOLEAN :
                IF to_enter
                  THEN /\ lbl_actions' = lbl_actions \o OnEnterNamed(lbl_next)
                       /\ lbl_current' = lbl_next
                       /\ lbl_next' = NextStageName(lbl_next)
                       /\ UNCHANGED lblPc
                  ELSE /\ lblPc' = LblAfterLoop(lbl_current, lbl_result.stage)
                       /\ UNCHANGED <<lbl_current, lbl_next, lbl_actions>>
    /\ UNCHANGED <<lbl_task, lbl_result, lbl_applied, lbl_persisted>>

\* workflow.py 168-177: can_set_stage, which for a section workflow warns when
\* the project has no section of that name (section.py 72-75), then the
\* actions and set_stage
LblAdvance ==
    /\ UNCHANGED notLbl
    /\ lblPc = "advance"
    /\ \E out \in (IF lbl_task.kind = "section" THEN {"ok", "warn"} ELSE {"ok"}) :
        IF out = "ok"
          THEN /\ lbl_applied' = lbl_actions
               /\ lbl_persisted' = lbl_current
          ELSE UNCHANGED <<lbl_applied, lbl_persisted>>
    /\ lblPc' = "done"
    /\ UNCHANGED <<lbl_task, lbl_result, lbl_current, lbl_next, lbl_actions>>

LblNext == \/ LblGetCurrentStage
           \/ LblLoop
           \/ LblAdvance

----------------------------------------------------------------------------
(* The stage manager of EnumCustomFieldWorkflow, enum.py 59-101: the stage is
   the selected option of an enum custom field of the item *)

FieldName == "Custom Field"
OtherFieldName == "other field"

\* the names an option of the field can have: the stage names and one more
OptionNames == {StageNames[1], StageNames[2], UnknownStageName}

\* models.py 213-214: enum_options is None for a field that is no enum field,
\* else the list of its options; enum_value is None or the option selected
EnumOptions(list) == [options |-> list]
OptionLists == UNION {[1..n -> OptionNames] : n \in 0..MaxOptions}
NamedFields ==
    {[name |-> FieldName, enum_options |-> Null, enum_value |-> NoneStr]}
    \cup {[name |-> FieldName, enum_options |-> EnumOptions(l), enum_value |-> v] :
              l \in OptionLists, v \in OptionNames \cup {NoneStr}}
OtherField == [name |-> OtherFieldName, enum_options |-> EnumOptions(<<StageNames[1]>>),
               enum_value |-> StageNames[1]]

\* the custom_fields of the item snapshots: the named field, if there, after
\* another field or alone
CustomFieldLists ==
    {prefix \o named : prefix \in {<<>>, <<OtherField>>},
                       named \in {<<>>} \cup {<<fld>> : fld \in NamedFields}}

\* _itertools.py 33-43, find_by_name(task.custom_fields, name): the first field
\* of that name, or None
NoField == [none |-> "field"]
FindField(fields, name) ==
    IF \E n \in 1..Len(fields) : fields[n].name = name
      THEN fields[CHOOSE n \in 1..Len(fields) :
                      /\ fields[n].name = name
                      /\ \A m \in 1..(n - 1) : fields[m].name # name]
      ELSE NoField

\* enum.py 59-77, get_current_stage
EnumGetCurrentStage(fields) ==
    LET custom_field == FindField(fields, FieldName)
    IN  IF custom_field = NoField THEN StageWarning
        ELSE IF custom_field.enum_options = Null THEN StageWarning
        ELSE LET context == [custom_field |-> custom_field,
                             enum_options |-> custom_field.enum_options.options]
             IN  IF custom_field.enum_value = NoneStr
                   THEN StageResolved(NoneStr, context)
                   ELSE IF FindByName(StageNames, custom_field.enum_value) = NoneStr
                          THEN StageWarning
                          ELSE StageResolved(custom_field.enum_value, context)

\* a can_set_stage that takes the stage name for an option without looking
EnumCanSetStageUnchecked(stage, context) == [outcome |-> "ok", enum_option |-> stage]

\* enum.py 79-90, can_set_stage: the option named like the stage, or a warning
EnumCanSetStage(stage, context) ==
    LET enum_option == FindByName(context.enum_options, stage)
    IN  IF enum_option = NoneStr
          THEN [outcome |-> "warn", enum_option |-> NoneStr]
          ELSE [outcome |-> "ok", enum_option |-> enum_option]

EnumInit ==
    /\ en_fields \in CustomFieldLists
    /\ enPc = "get"
    /\ en_result = StageWarning
    /\ en_stage = NoneStr
    /\ en_can = [outcome |-> "warn", enum_option |-> NoneStr]
    /\ en_set = NoneStr

EnumIdle ==
    /\ en_fields = <<>>
    /\ enPc = "off"
    /\ en_result = StageWarning
    /\ en_stage = NoneStr
    /\ en_can = [outcome |-> "warn", enum_option |-> NoneStr]
    /\ en_set = NoneStr

\* workflow.py 150-154: get_current_stage; a warning ends the pass
EnGetCurrentStage ==
    /\ UNCHANGED notEnum
    /\ enPc = "get"
    /\ en_result' = EnumGetCurrentStage(en_fields)
    /\ enPc' = IF EnumGetCurrentStage(en_fields).outcome = "ok" THEN "can_set" ELSE "done"
    /\ UNCHANGED <<en_fields, en_stage, en_can, en_set>>

\* workflow.py 157-174: the pass reached a stage after the current one and
\* asks can_set_stage for it; a warning ends the pass
EnCanSetStage ==
    /\ UNCHANGED notEnum
    /\ enPc = "can_set"
    /\ \E i \in 1..Len(StageNames) :
        /\ en_result.stage # NoneStr => StageNames[i] = NextStageName(en_result.stage)
        /\ en_stage' = StageNames[i]
        /\ en_can' = EnumCanSetStage(StageNames[i], en_result.context)
        /\ enPc' = IF EnumCanSetStage(StageNames[i], en_result.context).outcome = "ok"
                     THEN "set" ELSE "done"
    /\ UNCHANGED <<en_fields, en_result, en_set>>

\* workflow.py 177 and enum.py 92-98: set_stage hands the option of the set
\* context to client.set_enum_custom_field
EnSetStage ==
    /\ UNCHANGED notEnum
    /\ enPc = "set"
    /\ en_set' = en_can.enum_option
    /\ enPc' = "done"
    /\ UNCHANGED <<en_fields, en_result, en_stage, en_can>>

EnumNext == \/ EnGetCurrentStage
            \/ EnCanSetStage
            \/ EnSetStage

----------------------------------------------------------------------------
(* Specifications, one per component *)

WorkflowInit == WfInit /\ TtIdle /\ MvIdle /\ PoolIdle /\ BlobIdle /\ MsIdle /\ PredIdle /\ FaIdle /\ SoIdle /\ PsIdle /\ LblIdle /\ EnumIdle
WorkflowSpec == WorkflowInit /\ [][WfNext]_vars

\* a pass that has begun goes on: the thread running Workflow.__call__ is
\* not suspended for ever inside the while loop
WorkflowFairSpec == WorkflowInit /\ [][WfNext]_vars /\ WF_vars(WfLoop)

TriageTaskInit == TtInit /\ WfIdle /\ MvIdle /\ PoolIdle /\ BlobIdle /\ MsIdle /\ PredIdle /\ FaIdle /\ SoIdle /\ PsIdle /\ LblIdle /\ EnumIdle
TriageTaskSpec == TriageTaskInit /\ [][TtNext]_vars

MovesInit == MvInit /\ WfIdle /\ TtIdle /\ PoolIdle /\ BlobIdle /\ MsIdle /\ PredIdle /\ FaIdle /\ SoIdle /\ PsIdle /\ LblIdle /\ EnumIdle
MovesSpec == MovesInit /\ [][MvNext]_vars

PoolSpecInit == PoolInit /\ WfIdle /\ TtIdle /\ MvIdle /\ BlobIdle /\ MsIdle /\ PredIdle /\ FaIdle /\ SoIdle /\ PsIdle /\ LblIdle /\ EnumIdle
PoolSpec == PoolSpecInit /\ [][PoolNext]_vars

BlobSpecInit == BlobInit /\ WfIdle /\ TtIdle /\ MvIdle /\ PoolIdle /\ MsIdle /\ PredIdle /\ FaIdle /\ SoIdle /\ PsIdle /\ LblIdle /\ EnumIdle
BlobSpec == BlobSpecInit /\ [][BlobNext]_vars

ModifiedSinceInit == MsInit /\ WfIdle /\ TtIdle /\ MvIdle /\ PoolIdle /\ BlobIdle /\ PredIdle /\ FaIdle /\ SoIdle /\ PsIdle /\ LblIdle /\ EnumIdle
ModifiedSinceSpec == ModifiedSinceInit /\ [][MsNext]_vars

PredicateInit == PredInit /\ WfIdle /\ TtIdle /\ MvIdle /\ PoolIdle /\ BlobIdle /\ MsIdle /\ FaIdle /\ SoIdle /\ PsIdle /\ LblIdle /\ EnumIdle
PredicateSpec == PredicateInit /\ [][PredNext]_vars

ForAtLeastInit == FaInit /\ WfIdle /\ TtIdle /\ MvIdle /\ PoolIdle /\ BlobIdle /\ MsIdle /\ PredIdle /\ SoIdle /\ PsIdle /\ LblIdle /\ EnumIdle
ForAtLeastSpec == ForAtLeastInit /\ [][FaNext]_vars

SorterInit == SoInit /\ WfIdle /\ TtIdle /\ MvIdle /\ PoolIdle /\ BlobIdle /\ MsIdle /\ PredIdle /\ FaIdle /\ PsIdle /\ LblIdle /\ EnumIdle
SorterSpec == SorterInit /\ [][SoNext]_vars

PollingInit == PsInit /\ WfIdle /\ TtIdle /\ MvIdle /\ PoolIdle /\ BlobIdle /\ MsIdle /\ PredIdle /\ FaIdle /\ SoIdle /\ LblIdle /\ EnumIdle
PollingSpec == PollingInit /\ [][PsNext]_vars

StageLabelInit == LblInit /\ WfIdle /\ TtIdle /\ MvIdle /\ PoolIdle /\ BlobIdle /\ MsIdle /\ PredIdle /\ FaIdle /\ SoIdle /\ PsIdle /\ EnumIdle
StageLabelSpec == StageLabelInit /\ [][LblNext]_vars

EnumStageInit == EnumInit /\ WfIdle /\ TtIdle /\ MvIdle /\ PoolIdle /\ BlobIdle /\ MsIdle /\ PredIdle /\ FaIdle /\ SoIdle /\ PsIdle /\ LblIdle
EnumStageSpec == EnumStageInit /\ [][EnumNext]_vars

----------------------------------------------------------------------------
(* Properties of a Workflow pass *)

\* the calls of the current pass to one operation, and those that returned
CallsOf(op) == SelectSeq(calls, LAMBDA c : c.op = op)
OkCallsOf(op) == SelectSeq(calls, LAMBDA c : c.op = op /\ c.out = "ok")
Args(s) == [n \in 1..Len(s) |-> s[n].arg]
IsPrefix(s, t) == Len(s) <= Len(t) /\ \A n \in 1..Len(s) : s[n] = t[n]

\* the remote effects of the current pass
PassEffects == SelectSeq(effects, LAMBDA e : e.pass = passes)
PassApplied == Args(SelectSeq(PassEffects, LAMBDA e : e.op = "action"))
PassPersisted == Args(SelectSeq(PassEffects, LAMBDA e : e.op = "set_stage"))

\* the stage manager resolved the current stage of the item, at position StartIdx
Resolved == task.get \notin {GetWarning, GetRaises}
StartIdx == task.get.to_enter

\* the largest j >= i such that the entry predicates of stages i+1..j are all true
RECURSIVE Furthest(_, _)
Furthest(t, i) ==
    IF i < NumStages /\ t.pred[i + 1] = "true" THEN Furthest(t, i + 1) ELSE i

\* the on_enter actions of stages i+1..j, in stage order
RECURSIVE EnterActions(_, _)
EnterActions(i, j) == IF j <= i THEN <<>> ELSE EnterActions(i, j - 1) \o OnEnterOf(j)

\* C1: in a pass that resolves the current stage at position i and whose entry
\* predicates are true for stages i+1..j (j > i the largest such, the next
\* predicate false or absent): the actions called are always a prefix of the
\* on_enter actions of stages i+1..j in stage order, can_set_stage is asked at
\* most once and only for stage j, set_stage is called at most once, for stage
\* j, as the last call and after every action returned; and a pass that ends
\* without warning or exception has called each of these actions exactly once,
\* can_set_stage once and set_stage once, leaving the item at stage j.
C1_AdvanceAppliesThenPersists ==
    LET i    == StartIdx
        j    == Furthest(task, i)
        exp  == EnterActions(i, j)
        acts == CallsOf("action")
        cans == CallsOf("can_set_stage")
        sets == CallsOf("set_stage")
    IN  (/\ passes >= 1
         /\ Resolved
         /\ j > i
         /\ (j = NumStages \/ task.pred[j + 1] = "false"))
        => /\ IsPrefix(Args(acts), exp)
           /\ Len(cans) <= 1
           /\ \A n \in 1..Len(cans) : cans[n].arg = j
           /\ (acts # <<>> => Len(cans) = 1 /\ cans[1].out = "ok")
           /\ Len(sets) <= 1
           /\ \A n \in 1..Len(sets) : sets[n].arg = j
           /\ (sets # <<>> => /\ Args(OkCallsOf("action")) = exp
                              /\ calls[Len(calls)].op = "set_stage")
           /\ (wfPc = "done" /\ ~raised /\ warnings = 0
                 => /\ Args(OkCallsOf("action")) = exp
                    /\ Len(acts) = Len(exp)
                    /\ Len(cans) = 1
                    /\ Len(sets) = 1
                    /\ PassApplied = exp
                    /\ PassPersisted = <<j>>
                    /\ PassEffects[Len(PassEffects)].op = "set_stage")

\* an item with no stage whose first two predicates are true ended at stage
\* index 1 (0-based) with the actions of stages 0 then 1 applied
C1_Witness ==
    /\ wfPc = "done" /\ ~raised /\ passes = 1
    /\ task.get = None
    /\ task.pred[1] = "true" /\ task.pred[2] = "true" /\ task.pred[3] = "false"
    /\ effects = <<Effect("action", 11, 1), Effect("action", 21, 1),
                   Effect("action", 22, 1), Effect("set_stage", 2, 1)>>

\* C2: when can_set_stage returns a warning, the pass ends there: no action is
\* called, set_stage is not called, nothing changes remotely and exactly one
\* warning is logged.
C2_CanSetWarningDiscardsActions ==
    \A n \in 1..Len(calls) :
        (calls[n].op = "can_set_stage" /\ calls[n].out = "warn")
        => /\ n = Len(calls)
           /\ wfPc = "done"
           /\ ~raised
           /\ warnings = 1
           /\ CallsOf("action") = <<>>
           /\ CallsOf("set_stage") = <<>>
           /\ PassEffects = <<>>

\* a pass that accumulated three actions and was refused by can_set_stage
C2_Witness ==
    /\ calls # <<>>
    /\ calls[Len(calls)].op = "can_set_stage"
    /\ calls[Len(calls)].out = "warn"
    /\ Len(actions) = 3

\* C3 as stated: at the end of every pass either every accumulated action has
\* been applied and the new stage persisted, or no action has been applied and
\* no stage persisted.
C3_AllOrNothing ==
    (wfPc = "done" /\ passes >= 1)
    => \/ PassApplied = actions /\ PassPersisted # <<>>
       \/ PassApplied = <<>> /\ PassPersisted = <<>>

\* C3 amended: at the end of every pass either every accumulated action has
\* been applied and the new stage persisted, or no action has been applied and
\* no stage persisted, or the pass was ended by an exception of an action or
\* of set_stage, and then the actions before the failing call have been
\* applied, in order, and no stage has been persisted.
C3_AllOrNothingUnlessRaised ==
    /\ IsPrefix(PassApplied, actions)
    /\ (wfPc = "done" /\ passes >= 1)
        => \/ PassApplied = actions /\ PassPersisted = <<Pos(current_stage)>>
           \/ PassApplied = <<>> /\ PassPersisted = <<>>
           \/ /\ raised
              /\ calls[Len(calls)].op \in {"action", "set_stage"}
              /\ calls[Len(calls)].out = "raise"
              /\ PassPersisted = <<>>

\* a pass ended by the exception of its second action, the first one applied
C3_Witness ==
    /\ wfPc = "done" /\ raised
    /\ Len(actions) >= 2
    /\ Len(PassApplied) = 1
    /\ calls[Len(calls)].op = "action"

\* C10: a pass on an item whose current stage is the last one, or whose
\* candidate-next stage has a false entry predicate, calls neither
\* can_set_stage nor set_stage nor any action, and however often the pass is
\* repeated on the same snapshot nothing changes remotely.
C10_NoAdvanceIsNoOp ==
    (/\ Resolved
     /\ (StartIdx = NumStages \/ task.pred[StartIdx + 1] = "false"))
    => /\ CallsOf("can_set_stage") = <<>>
       /\ CallsOf("set_stage") = <<>>
       /\ CallsOf("action") = <<>>
       /\ warnings = 0
       /\ ~raised
       /\ effects = <<>>

\* two passes were made on an item in a stage whose successor refuses it,
\* and two on an item in the last stage
C10_Witness ==
    /\ passes = MaxPasses /\ wfPc = "done"
    /\ Len(calls) = 2
    /\ calls[2].op = "to_enter" /\ calls[2].out = "false"
    /\ task.get = stages[1]

C10_WitnessLastStage ==
    /\ passes = MaxPasses /\ wfPc = "done"
    /\ task.get = stages[Len(stages)]

\* C11: when get_current_stage returns a warning, the pass logs it once and ends:
\* the only call of the pass is get_current_stage; no entry predicate is
\* evaluated, can_set_stage and set_stage are not called, no action is applied,
\* and the pass has no remote effect.
C11_GetWarningEndsThePass ==
    (task.get = GetWarning /\ passes >= 1) =>
        /\ wfPc = "done"
        /\ warnings = 1
        /\ ~raised
        /\ calls = <<Call("get_current_stage", 0, "warn")>>
        /\ CallsOf("to_enter") = <<>>
        /\ CallsOf("can_set_stage") = <<>>
        /\ CallsOf("set_stage") = <<>>
        /\ CallsOf("action") = <<>>
        /\ actions = <<>> /\ applied = 0
        /\ PassEffects = <<>>

\* a pass has ended on a warning for an item whose first entry predicate is true
C11_Witness ==
    /\ task.get = GetWarning
    /\ passes >= 1 /\ wfPc = "done"
    /\ warnings = 1
    /\ task.pred[1] = "true"

\* the effects the first pass left behind
FirstPassEffects == SelectSeq(effects, LAMBDA e : e.pass = 1)
FirstPassApplied == Args(SelectSeq(FirstPassEffects, LAMBDA e : e.op = "action"))
FirstPassPersisted == Args(SelectSeq(FirstPassEffects, LAMBDA e : e.op = "set_stage"))

\* some action of the current pass raised
AnActionRaised == \E n \in 1..Len(calls) : calls[n].op = "action" /\ calls[n].out = "raise"

\* the while loop of the current pass has ended and the pass goes on to advance
LoopEndedAdvancing ==
    \/ wfPc \in {"can_set", "apply", "set_stage"}
    \/ wfPc = "done" /\ CallsOf("can_set_stage") # <<>>

\* C26: when an on-enter action raises, the pass ends at that call: the
\* actions after it are not called, set_stage is not called and no stage is
\* persisted in that pass, and the actions applied before it stay in effect.
\* A later pass on the item, whose persisted stage is the same, accumulates
\* the same actions and applies them from the first one again.
C26_FailedActionEndsPassAndIsRepeated ==
    /\ AnActionRaised
        => /\ wfPc = "done" /\ raised
           /\ calls[Len(calls)] = Call("action", actions[applied + 1], "raise")
           /\ Len(CallsOf("action")) = applied + 1
           /\ CallsOf("set_stage") = <<>>
           /\ PassPersisted = <<>>
           /\ PassApplied = SubSeq(actions, 1, applied)
    /\ (passes = 2 /\ FirstPassApplied # <<>> /\ FirstPassPersisted = <<>>)
        => /\ IsPrefix(FirstPassApplied, EnterActions(StartIdx, Furthest(task, StartIdx)))
           /\ LoopEndedAdvancing
               => /\ actions = EnterActions(StartIdx, Furthest(task, StartIdx))
                  /\ IsPrefix(FirstPassApplied, actions)
                  /\ IsPrefix(PassApplied, actions)

\* the first pass was ended by its third action raising; the second pass has
\* applied the first two actions again and its third action raises again
C26_Witness ==
    /\ passes = 2
    /\ Len(FirstPassApplied) = 2
    /\ FirstPassPersisted = <<>>
    /\ AnActionRaised
    /\ PassApplied = FirstPassApplied
    /\ Len(actions) = 3

\* the entry predicate of stage k was evaluated before call n and returned true
EnteredBefore(k, n) == \E m \in 1..(n - 1) : calls[m] = Call("to_enter", k, "true")

\* C28: a Workflow only moves forward: every set_stage call persists a stage
\* strictly later in the stage list than the stage resolved at the start of the
\* pass (any stage when that was None), never an earlier stage and never the
\* stage the item is in, and the entry predicate of every stage after the old
\* one up to the new one returned true earlier in that pass.
C28_OnlyMovesForward ==
    /\ \A n \in 1..Len(calls) :
          calls[n].op = "set_stage"
          => /\ Resolved
             /\ calls[n].arg > Pos(original_stage)
             /\ Pos(original_stage) = StartIdx
             /\ calls[n].arg <= NumStages
             /\ \A k \in (StartIdx + 1)..calls[n].arg : EnteredBefore(k, n)
    /\ \A n \in 1..Len(effects) :
          effects[n].op = "set_stage" => Resolved /\ effects[n].arg > StartIdx

\* an item in the first stage was moved two stages on, to the last stage
C28_Witness ==
    /\ wfPc = "done"
    /\ StartIdx = 1
    /\ task.get # None
    /\ PassPersisted = <<StartIdx + 2>>

\* the entry predicate evaluations of the current pass, in order
Evaluations == CallsOf("to_enter")

\* what holds of the evaluations made so far at every moment of a pass
EvaluationsInStageOrder ==
    /\ Evaluations # <<>> => Resolved /\ Evaluations[1].arg = StartIdx + 1
    /\ \A n \in 1..(Len(Evaluations) - 1) :
          /\ Evaluations[n + 1].arg = Evaluations[n].arg + 1
          /\ Evaluations[n].out = "true"
    /\ \A m, n \in 1..Len(Evaluations) : m # n => Evaluations[m].arg # Evaluations[n].arg
    /\ Len(Evaluations) <= NumStages
    /\ wfPc = "loop" => Len(Evaluations) = Pos(current_stage) - StartIdx

\* C30: the advancement loop of a pass over pairwise distinct stages
\* terminates; it evaluates the entry predicates in stage order starting at
\* the stage after the current one, each at most once, none after the first
\* that is false, and at most len(stages) of them.
C30_LoopTerminatesInStageOrder ==
    /\ []EvaluationsInStageOrder
    /\ (wfPc = "loop") ~> (wfPc # "loop")

\* the loop of an item without a stage has ended at the false predicate of the
\* last stage, after as many evaluations as there are stages
C30_Witness ==
    /\ wfPc = "can_set"
    /\ task.get = None
    /\ Len(Evaluations) = NumStages
    /\ Evaluations[NumStages].out = "false"

----------------------------------------------------------------------------
(* Properties of Triager._triage_task *)

TCallsOf(op) == SelectSeq(tcalls, LAMBDA c : c.op = op)

\* some registered ignore predicate is true for the item
Ignored == \E p \in 1..ttask.nIgn : ttask.ign[p] = "true"

\* the lists produced by the pairs 1..r whose predicate is true, concatenated
\* in registration order
RECURSIVE MatchedActions(_, _)
MatchedActions(t, r) ==
    IF r = 0 THEN <<>>
    ELSE MatchedActions(t, r - 1) \o (IF t.pred[r] = "true" THEN Produced(r) ELSE <<>>)

\* the pairs 1..r whose predicate is true, in registration order
RECURSIVE MatchedPairs(_, _)
MatchedPairs(t, r) ==
    IF r = 0 THEN <<>>
    ELSE MatchedPairs(t, r - 1) \o (IF t.pred[r] = "true" THEN <<r>> ELSE <<>>)

\* C4: if some registered ignore predicate is true for the item, then no rule
\* predicate is evaluated, no action producer is called and no action is
\* applied, whatever the registered ignore predicates and rules are and in
\* whatever order the ignore set is iterated.
C4_IgnoredItemIsNeverTriaged ==
    Ignored => /\ TCallsOf("predicate") = <<>>
               /\ TCallsOf("create_action") = <<>>
               /\ TCallsOf("action") = <<>>
               /\ tactions = <<>>
               /\ tapplied = 0

\* an item was skipped by the ignore predicate evaluated second, two rules
\* being registered of which the first matches the item
C4_Witness ==
    /\ ttPc = "done"
    /\ ttask.nRules = 2 /\ ttask.pred[1] = "true"
    /\ Len(tcalls) = 2
    /\ tcalls[1].out = "false"
    /\ tcalls[2].op = "ignore" /\ tcalls[2].out = "true"

\* C9: for an item no ignore predicate matches, the predicates of the pairs
\* are evaluated in registration order, the producers of the matching pairs
\* are called in registration order, and the actions called are always a
\* prefix of the concatenation of the lists of the matching pairs; when
\* _triage_task returns, the predicate of every pair has been evaluated once,
\* the producer of every matching pair called once, and each action of the
\* concatenation called once, in that order.
C9_EveryMatchingPairContributes ==
    LET n   == ttask.nRules
        exp == MatchedActions(ttask, n)
    IN  (\A p \in 1..ttask.nIgn : ttask.ign[p] = "false")
        => /\ IsPrefix(Args(TCallsOf("predicate")), [r \in 1..n |-> r])
           /\ IsPrefix(Args(TCallsOf("create_action")), MatchedPairs(ttask, n))
           /\ IsPrefix(Args(TCallsOf("action")), exp)
           /\ (ttPc = "done" /\ ~traised
                 => /\ Args(TCallsOf("predicate")) = [r \in 1..n |-> r]
                    /\ Args(TCallsOf("create_action")) = MatchedPairs(ttask, n)
                    /\ Args(TCallsOf("action")) = exp
                    /\ tapplied = Len(exp))

\* both registered pairs matched the item and their three actions were applied
C9_Witness ==
    /\ ttPc = "done" /\ ~traised
    /\ ttask.nIgn = NumIgnores
    /\ ttask.nRules = 2 /\ ttask.pred[1] = "true" /\ ttask.pred[2] = "true"
    /\ Args(TCallsOf("action")) = <<11, 21, 22>>
    /\ tapplied = 3

\* a rule predicate or an action producer raised
RuleRaised ==
    \E n \in 1..Len(tcalls) :
        tcalls[n].op \in {"predicate", "create_action"} /\ tcalls[n].out = "raise"

\* C27: _triage_task evaluates all rule predicates and calls all matching
\* producers before it applies the first action: no action is applied between
\* two predicate evaluations, and when a predicate or a producer raises no
\* action at all is applied.
C27_RulesEvaluatedBeforeAnyAction ==
    /\ \A n \in 1..Len(tcalls) :
          tcalls[n].op = "action"
          => /\ \A m \in n..Len(tcalls) : tcalls[m].op = "action"
             /\ Args(TCallsOf("predicate")) = [r \in 1..ttask.nRules |-> r]
             /\ Args(TCallsOf("create_action")) = MatchedPairs(ttask, ttask.nRules)
             /\ tactions = MatchedActions(ttask, ttask.nRules)
    /\ RuleRaised => TCallsOf("action") = <<>> /\ tapplied = 0

\* both rules were evaluated, the first one matching and the second one not,
\* and then the actions of the first one were applied
C27_Witness ==
    /\ ttPc = "done"
    /\ ttask.nRules = 2
    /\ ttask.pred[1] = "true"
    /\ ttask.pred[2] = "false"
    /\ tapplied = Len(tactions)
    /\ tapplied >= 1
    /\ Len(TCallsOf("predicate")) = 2

----------------------------------------------------------------------------
(* Properties of Triager._generate_moves *)

\* the ranks of seq, in physical order
Ranks == [p \in 1..Len(seq) |-> seq[p][1]]

\* the sets of positions of seq whose ranks increase with the position
IncreasingRuns ==
    {S \in SUBSET (1..Len(seq)) : \A a, b \in S : a < b => seq[a][1] < seq[b][1]}

\* the length of the longest increasing subsequence of seq, by target rank
LongestRun == CHOOSE m \in 0..Len(seq) :
                  /\ \E S \in IncreasingRuns : Cardinality(S) = m
                  /\ \A S \in IncreasingRuns : Cardinality(S) <= m

\* the positions of seq whose item got no move
Unmoved == {p \in 1..Len(seq) : \A n \in 1..Len(moves) : moves[n][1] # seq[p][2]}

\* C7: once every move returned by _generate_moves has been applied, in the
\* order returned, to the physical order, the tasks are in the order of their
\* target ranks.
C7_MovesSortThePhysicalOrder ==
    mvPc = "done"
    => /\ Len(physical) = Len(seq)
       /\ \A p \in 1..Len(physical) : physical[p] = TaskOfRank(p - 1)

\* the physical order of ranks 3,2,4,0,1 was sorted by the three moves
\* (rank 2 before rank 3), (rank 0 before rank 2), (rank 1 after rank 0)
C7_Witness ==
    /\ mvPc = "done"
    /\ Ranks = <<3, 2, 4, 0, 1>>
    /\ moves = <<<<102, "before", 103>>, <<100, "before", 102>>, <<101, "after", 100>>>>
    /\ mvApplied = 3
    /\ physical = <<100, 101, 102, 103, 104>>

\* C8: the number of moves returned is N minus the length of the longest
\* increasing subsequence of the physical order, the items without a move are
\* those of a longest increasing subsequence, and no item has two moves.
C8_FewestMoves ==
    mvPc \in {"apply", "done"}
    => /\ Len(moves) = Len(seq) - LongestRun
       /\ \E S \in IncreasingRuns : Cardinality(S) = LongestRun /\ S = Unmoved
       /\ \A m, n \in 1..Len(moves) : moves[m][1] = moves[n][1] => m = n

\* C20: inside one reconciliation the reorder calls issued are, at every
\* moment, the first moves of the list _generate_moves returned, in its order;
\* a call is issued only when all calls before it have returned (at most one
\* call is in progress); no call is issued before the list is complete; when
\* _sort_section ends normally every move has been sent once; and a section
\* already in sorted order causes no call.
C20_ReordersIssuedInGeneratedOrder ==
    /\ Len(sent) <= Len(moves)
    /\ sent = SubSeq(moves, 1, Len(sent))
    /\ Len(sent) - mvApplied \in {0, 1}
    /\ Len(sent) - mvApplied = 1 <=> mvPc \in {"in_call", "failed"}
    /\ mvPc \in {"start", "loop"} => sent = <<>>
    /\ mvPc = "done" => sent = moves /\ mvApplied = Len(moves)
    /\ (\A p \in 1..Len(seq) : Ranks[p] = p - 1) => sent = <<>>

\* three different reorder calls have been issued and have returned
C20_Witness ==
    /\ mvPc = "done"
    /\ Len(sent) = 3
    /\ sent = moves
    /\ sent[1] # sent[2] /\ sent[2] # sent[3]

\* a section already in sorted order went through _sort_section without a call
C20_WitnessSorted ==
    /\ mvPc = "done"
    /\ Len(seq) = MaxTasks
    /\ \A p \in 1..Len(seq) : Ranks[p] = p - 1
    /\ sent = <<>>

\* the number of elements of seq that _generate_moves has put into output
Processed ==
    IF mvPc = "start" THEN 0
    ELSE IF Len(seq) = 0 THEN 0
    ELSE mvK - 1

\* C21: after seq[:1] and after every iteration of _generate_moves the list
\* output is in strictly increasing order of target rank and holds exactly
\* the elements of seq processed so far, each once: an element is inserted
\* whether or not a move was emitted for it, so output grows by one in every
\* iteration while moves grows by at most one.
C21_BackboneSortedAndComplete ==
    /\ Len(output) = Processed
    /\ \A a, b \in 1..Len(output) : a < b => output[a][1] < output[b][1]
    /\ {output[a] : a \in 1..Len(output)} = {seq[p] : p \in 1..Processed}
    /\ Len(moves) <= Len(output)
    /\ mvPc \in {"apply", "in_call", "done", "failed"} => Len(output) = Len(seq)

\* three elements have been processed, two of them with a move, and all
\* three are in the backbone
C21_Witness ==
    /\ mvPc = "loop"
    /\ mvK = 4
    /\ Len(moves) = 2
    /\ Len(output) = 3
    /\ Len(seq) = MaxTasks

\* position p of seq is the first one or holds a target rank greater than
\* the rank at every earlier position
LeftToRightMaximum(p) == \A q \in 1..(p - 1) : seq[q][1] < seq[p][1]

\* the moves _generate_moves has emitted for the element at position p
MovesOf(p) == {n \in 1..Len(moves) : moves[n][1] = seq[p][2]}

\* C25: _generate_moves emits no move for an element exactly when it is the
\* first of seq or a left-to-right maximum of the target ranks, and exactly
\* one move for every other element; so the first element is never moved,
\* the number of moves is N minus the number of left-to-right maxima, and
\* a seq already in target order yields no move.
C25_NoMoveIffLeftToRightMaximum ==
    /\ \A p \in 1..Processed :
          /\ LeftToRightMaximum(p) <=> MovesOf(p) = {}
          /\ ~LeftToRightMaximum(p) => Cardinality(MovesOf(p)) = 1
    /\ \A p \in (Processed + 1)..Len(seq) : MovesOf(p) = {}
    /\ Processed >= 1 => MovesOf(1) = {}
    /\ Len(moves) = Processed - Cardinality({p \in 1..Processed : LeftToRightMaximum(p)})
    /\ (\A p \in 1..(Len(seq) - 1) : seq[p][1] < seq[p + 1][1]) => moves = <<>>

\* the moves of a whole seq have been generated; it has left-to-right maxima
\* after the first element and elements that are none
C25_Witness ==
    /\ mvPc = "apply"
    /\ mvApplied = 0
    /\ Len(seq) = MaxTasks
    /\ Cardinality({p \in 1..Len(seq) : LeftToRightMaximum(p)}) = 3
    /\ Len(moves) = MaxTasks - 3

----------------------------------------------------------------------------
(* Properties of triage(), apply() and sort() over the worker pool *)

Finished(u) == unit[u] \in {"ok", "failed"}
Left == mainPc \in {"returned", "propagated"}

\* C5: a unit that raises in a worker is logged as an error exactly once (no
\* unit is ever logged twice, none that did not raise is logged); its
\* exception never leaves triage(), apply() or sort(), which end by an
\* exception only when the source itself raised; and when the method returns
\* every item the source yields has been submitted and handled, whichever
\* units failed.
C5_WorkerFailureIsLoggedOnceAndContained ==
    /\ \A u \in Units : logged[u] <= 1
    /\ \A u \in Units : logged[u] = 1 => unit[u] = "failed"
    /\ \A u \in Units :
          (unit[u] = "failed" /\ (\A w \in Workers : workerUnit[w] # u) /\ inSubmit # u)
          => logged[u] = 1
    /\ Left => \A u \in Units : unit[u] = "failed" => logged[u] = 1
    /\ mainPc = "propagated" => sourceFailed
    /\ mainPc = "returned"
         => /\ submitted = [u \in 1..nUnits |-> u]
            /\ \A u \in 1..nUnits : Finished(u)

\* the method returned after its first unit failed and was logged, the
\* units after it having been submitted and handled
C5_Witness ==
    /\ mainPc = "returned"
    /\ nUnits = 3
    /\ unit = <<"failed", "ok", "ok">>
    /\ logged = <<1, 0, 0>>

\* C6: when triage(), apply() or sort() has returned (or has let an exception
\* of the source through), no submitted unit is pending or running: the work
\* queue is empty, every worker thread has ended, and every unit submitted
\* has finished.
C6_NoWorkInFlightAfterReturn ==
    Left => /\ queue = <<>>
            /\ \A w \in Workers : workerPc[w] = "idle"
            /\ \A n \in 1..Len(submitted) : Finished(submitted[n])
            /\ \A u \in Units : unit[u] # "new" => Finished(u)

\* the method returned with more units submitted than there are workers,
\* all finished, one of them with a failure
C6_Witness ==
    /\ mainPc = "returned"
    /\ Len(submitted) > NumWorkers
    /\ \A n \in 1..Len(submitted) : Finished(submitted[n])
    /\ unit[Len(submitted)] = "failed"


\* the number of times the handler of unit u has been run
Ran(u) == Cardinality({n \in 1..Len(completed) : completed[n] = u})

\* C12: in a triage() or apply() run the items are submitted once each in
\* source order (the k-th submission is the k-th item the source yields), no
\* handler runs for an item that was not submitted or runs twice, and when
\* the method has left every submitted item has been handled exactly once;
\* when it has returned these are all the items of the source, whatever the
\* order of completion.
C12_EachItemSubmittedAndHandledOnce ==
    mode \in {"triage", "apply"} =>
        /\ submitted = [k \in 1..Len(submitted) |-> k]
        /\ Len(submitted) <= nUnits
        /\ \A u \in Units : Ran(u) <= 1
        /\ \A u \in Units : Ran(u) = 1 => u \in 1..Len(submitted)
        /\ Left => \A u \in 1..Len(submitted) : Ran(u) = 1
        /\ mainPc = "returned" => /\ Len(submitted) = nUnits
                                   /\ Len(completed) = nUnits
                                   /\ \A u \in 1..nUnits : Ran(u) = 1

\* apply() returned after three items were handled, the second before the first
C12_Witness ==
    /\ mode = "apply"
    /\ mainPc = "returned"
    /\ submitted = <<1, 2, 3>>
    /\ completed = <<2, 1, 3>>


\* sort() submits _sort_section once per registered (section, sorter) pair and
\* each submitted reconciliation is run once
C20_OneReconciliationPerPair ==
    mode = "sort" =>
        /\ submitted = [k \in 1..Len(submitted) |-> k]
        /\ \A u \in Units : Ran(u) <= 1
        /\ mainPc = "returned" => /\ Len(submitted) = nUnits
                                   /\ \A u \in 1..nUnits : Ran(u) = 1


----------------------------------------------------------------------------
(* Properties of the blob-backed stage manager *)

\* the blob get_current_stage read from the item snapshot, its data as a dict
\* and its map of workflows
ReadExternal == ExternalOf(task_external)
ReadData == OrEmpty(ReadExternal.data)
ReadWorkflows == WorkflowsOf(ReadExternal)

\* C13: the External that set_stage hands to client.set_external has the gid of
\* the blob read, the top-level keys of the blob read plus "workflows", every
\* top-level key other than "workflows" with the value read, and under
\* "workflows" the entries read plus this workflow's, every other workflow's
\* entry with the value read and this workflow's entry the new stage name;
\* set_stage makes one such call.
C13_SetStageRewritesOnlyItsEntry ==
    /\ Len(set_external_calls) <= 1
    /\ blobPc = "done" <=> Len(set_external_calls) = 1
    /\ \A n \in 1..Len(set_external_calls) :
        LET written == set_external_calls[n]
        IN  /\ written.gid = ReadExternal.gid
            /\ DOMAIN written.data = (DOMAIN ReadData) \cup {"workflows"}
            /\ \A k \in (DOMAIN ReadData) \ {"workflows"} :
                  written.data[k] = ReadData[k]
            /\ DOMAIN written.data["workflows"] = (DOMAIN ReadWorkflows) \cup {WorkflowName}
            /\ \A k \in (DOMAIN ReadWorkflows) \ {WorkflowName} :
                  written.data["workflows"][k] = ReadWorkflows[k]
            /\ written.data["workflows"][WorkflowName] = blob_context.stage_name
            /\ blob_context.stage_name \in {StageNames[i] : i \in 1..Len(StageNames)}

\* set_stage moved this workflow from A to B in a blob that also holds the
\* stage of another workflow and another top-level key
C13_Witness ==
    /\ blobPc = "done"
    /\ task_external = External("g1", DictWith(DictWith(EmptyMap, "other_key", [v |-> "x"]),
                           "workflows",
                           DictWith(DictWith(EmptyMap, OtherWorkflowName, "P"), WorkflowName, "A")))
    /\ set_external_calls =
          <<External("g1", DictWith(DictWith(EmptyMap, "other_key", [v |-> "x"]),
                           "workflows",
                           DictWith(DictWith(EmptyMap, OtherWorkflowName, "P"), WorkflowName, "B")))>>
    /\ remote_external = set_external_calls[1]


\* the same entry, or the same absence of an entry, under key k of two maps
SameEntry(a, b, k) ==
    /\ k \in DOMAIN a <=> k \in DOMAIN b
    /\ k \in DOMAIN a => a[k] = b[k]

\* C29: the blob written by set_stage is computed from the snapshot of the
\* item that get_current_stage read and from nothing else: whatever was
\* written to the remote blob between the snapshot and the write, by a
\* SetExternal action of the same pass or by a pass of another blob-backed
\* workflow, is replaced by the snapshot's content with this workflow's entry
\* set, so that these changes are lost.
C29_WriteComputedFromSnapshotOnly ==
    /\ Len(overwritten) = Len(set_external_calls)
    /\ \A n \in 1..Len(set_external_calls) :
        LET written == set_external_calls[n]
        IN  /\ written = NewExternal([external   |-> ReadExternal,
                                      workflows  |-> ReadWorkflows,
                                      stage_name |-> blob_context.stage_name])
            /\ written.gid = ReadExternal.gid
            /\ SameEntry(written.data, ReadData, "other_key")
            /\ SameEntry(written.data["workflows"], ReadWorkflows, OtherWorkflowName)
            /\ blobPc = "done" => remote_external = written
            /\ (overwritten[n] # written /\ blobPc = "done") => remote_external # overwritten[n]

\* a SetExternal action of the pass and then a pass of the other workflow
\* changed the remote blob after the snapshot; set_stage has written, and the
\* remote blob has the snapshot's other_key and other-workflow entry again
C29_Witness ==
    /\ blobPc = "done"
    /\ overwritten = <<ConcurrentExternal(ActionExternal)>>
    /\ task_external = External("g1", DictWith(DictWith(EmptyMap, "other_key", [v |-> "y"]),
                           "workflows", DictWith(EmptyMap, OtherWorkflowName, "Q")))
    /\ remote_external.data["other_key"] = [v |-> "y"]
    /\ remote_external.data["workflows"][OtherWorkflowName] = "Q"

----------------------------------------------------------------------------
(* Properties of ModifiedSinceSource *)

\* the modified_since of the next fetch to be issued, if nothing else is
\* written to the persisted timestamp before it
NextModifiedSince ==
    IF msPc = "fetch" THEN modified_since
    ELSE IF msPc = "set" THEN now
    ELSE last_run

\* the last modification of task t has been handed to the triager, is in the
\* list being yielded, or is in the window of the next fetch
NotMissed(t) ==
    \/ yielded[t] = modified_at[t]
    \/ \E n \in 1..Len(batch) : batch[n] = Snapshot(t, modified_at[t])
    \/ NextModifiedSince <= modified_at[t]

\* C14: whenever the triager is stopped and started again, no task modified
\* since tracking began is missed: at every moment each such task has had its
\* last modification yielded, or is waiting in the fetched list, or is in the
\* window of the next fetch (the persisted timestamp is not later than its
\* modification), so that some poll before or after the restart yields it.
C14_NoModifiedTaskIsMissed ==
    \A t \in MsTasks : modified_at[t] # NeverModified => NotMissed(t)

\* the same without a stop: while the source keeps running no task is missed
C14_NoModifiedTaskIsMissedWhileRunning ==
    (restarts = 0 /\ msPc # "stopped") => C14_NoModifiedTaskIsMissed


\* poll n is the first fetch issued by its source object
FirstPollOfSource(n) == n = 1 \/ polls[n - 1].source # polls[n].source

\* each fetch asks from where the window of the fetch before it ended
WindowsChained ==
    \A n \in 1..Len(polls) :
        /\ polls[n].modified_since <= polls[n].now
        /\ IF FirstPollOfSource(n)
             THEN polls[n].modified_since = constructed[polls[n].source + 1]
             ELSE polls[n].modified_since = polls[n - 1].now

\* C24: the first poll of a ModifiedSinceSource asks for the tasks modified
\* since the time recorded at its construction, every later poll for those
\* modified since the time read right before the previous poll's fetch, so
\* the windows of successive polls leave no gap; and the last-run timestamp
\* never decreases.
C24_WindowsChainedAndLastRunMonotonic ==
    []WindowsChained /\ [][last_run' >= last_run]_vars

\* one source has fetched twice, time has passed between its construction
\* and its first fetch, and the timestamp of the second fetch is persisted
C24_Witness ==
    /\ Len(polls) = 2
    /\ polls[1].source = polls[2].source
    /\ polls[1].modified_since < polls[1].now
    /\ polls[2].modified_since = polls[1].now
    /\ polls[2].modified_since < polls[2].now
    /\ last_run = polls[2].now

----------------------------------------------------------------------------
(* Properties of the predicate combinators *)

\* what the operands of the predicate called return on their own
FirstResult == Evaluate(predicate.first, answers)
SecondResult == Evaluate(predicate.second, answers)
InnerResult == Evaluate(predicate.predicate, answers)

\* the truth value of a predicate when every user predicate returns
RECURSIVE Denotes(_)
Denotes(p) ==
    IF p.op = "leaf" THEN answers[p.name] = "true"
    ELSE IF p.op = "not" THEN ~Denotes(p.predicate)
    ELSE IF p.op = "and" THEN Denotes(p.first) /\ Denotes(p.second)
    ELSE Denotes(p.first) \/ Denotes(p.second)

\* the user predicates occurring in a predicate, left to right
RECURSIVE LeavesOf(_)
LeavesOf(p) ==
    IF p.op = "leaf" THEN <<p.name>>
    ELSE IF p.op = "not" THEN LeavesOf(p.predicate)
    ELSE LeavesOf(p.first) \o LeavesOf(p.second)

\* C15: a call of AND(a,b) evaluates a, then b only when a returned true, and
\* returns false when a is false and b's value otherwise; a call of OR(a,b)
\* evaluates a, then b only when a returned false, and returns true when a is
\* true and b's value otherwise; a call of NOT(a) evaluates a once and returns
\* its negation. An operand that raises ends the call with its exception. When
\* no user predicate raises the value is the boolean value of the formula, and
\* the user predicates invoked are a subsequence, from the left, of those
\* occurring in it.
C15_ShortCircuitCombinators ==
    predPc = "called" =>
        /\ predicate.op = "and" =>
            /\ result.invoked = FirstResult.invoked
                   \o (IF FirstResult.value = "true" THEN SecondResult.invoked ELSE <<>>)
            /\ result.value = IF FirstResult.value = "true" THEN SecondResult.value
                              ELSE FirstResult.value
        /\ predicate.op = "or" =>
            /\ result.invoked = FirstResult.invoked
                   \o (IF FirstResult.value = "false" THEN SecondResult.invoked ELSE <<>>)
            /\ result.value = IF FirstResult.value = "false" THEN SecondResult.value
                              ELSE FirstResult.value
        /\ predicate.op = "not" =>
            /\ result.invoked = InnerResult.invoked
            /\ InnerResult.value = "true" => result.value = "false"
            /\ InnerResult.value = "false" => result.value = "true"
            /\ InnerResult.value = "raise" => result.value = "raise"
        /\ predicate.op = "leaf" =>
            result = Result(answers[predicate.name], <<predicate.name>>)
        /\ (\A l \in Leaves : answers[l] # "raise") =>
            result.value = IF Denotes(predicate) THEN "true" ELSE "false"
        /\ Len(result.invoked) >= 1
        /\ Len(result.invoked) <= Len(LeavesOf(predicate))
        /\ result.invoked[1] = LeavesOf(predicate)[1]

\* AND(a, b) was called with a false: b, which would have raised, was not invoked
C15_Witness ==
    /\ predPc = "called"
    /\ predicate = And(Leaf("a"), Leaf("b"))
    /\ answers["a"] = "false" /\ answers["b"] = "raise"
    /\ result = Result("false", <<"a">>)

\* OR(NOT(a), b) was called with a false: b was not invoked
C15_WitnessOr ==
    /\ predPc = "called"
    /\ predicate = Or(Not(Leaf("a")), Leaf("b"))
    /\ answers["a"] = "false"
    /\ result = Result("true", <<"a">>)


----------------------------------------------------------------------------
(* Properties of the duration-qualified predicates *)

\* the stories the matcher accepts
Accepted == {n \in 1..Len(fa_stories) : fa_stories[n].matches}

\* T0: the timestamp of the most recent accepted story, or the creation time
\* of the task when there is none
HeldSince ==
    IF Accepted = {} THEN fa_created_at
    ELSE CHOOSE t \in {fa_stories[n].created_at : n \in Accepted} :
             \A n \in Accepted : fa_stories[n].created_at <= t

C16_WitnessNoStory ==
    /\ faPc = "called"
    /\ fa_in_state /\ fa_duration > 0
    /\ Len(fa_stories) = 1 /\ Accepted = {}
    /\ fa_now - fa_created_at > fa_duration
    /\ fa_now - fa_stories[1].created_at <= fa_duration
    /\ fa_result = "true"


----------------------------------------------------------------------------
(* Properties of the date sorters *)

\* the positions of the result without and with the date the sorter reads
Missing == {p \in 1..Len(so_sorted) : DateOf(so_kind, so_sorted[p]) = NoDate}
Dated == {p \in 1..Len(so_sorted) : DateOf(so_kind, so_sorted[p]) # NoDate}

\* C17: DueDateSorter(missing_first=False), ascending or descending, returns
\* every task without a due date after every task with a due date, whatever
\* the due dates.
C17_MissingLastWhateverTheDirection ==
    (soPc = "sorted" /\ so_kind = "due" /\ ~so_missing_first) =>
        \A m \in Missing, d \in Dated : d < m

\* C18: DueDateSorter and StartDateSorter with missing_first=True, ascending
\* or descending, return every task without the date before every task with
\* the date.
C18_MissingFirstWhateverTheDirection ==
    (soPc = "sorted" /\ so_missing_first) =>
        \A m \in Missing, d \in Dated : m < d

\* what the code does provide: with missing_first=False the tasks without the
\* date come last when no date is date.max or the sort is descending; with
\* missing_first=True they come first when the sort is ascending and no date
\* is date.min, and they come last when the sort is descending
SortedPlacementOfMissing ==
    soPc = "sorted" =>
        /\ Len(so_sorted) = Len(so_tasks)
        /\ (~so_missing_first /\ ~so_ascending) => \A m \in Missing, d \in Dated : d < m
        /\ (~so_missing_first /\ so_ascending
              /\ \A d \in Dated : DateOf(so_kind, so_sorted[d]) # MaxOrdinal)
           => \A m \in Missing, d \in Dated : d < m
        /\ (so_missing_first /\ so_ascending
              /\ \A d \in Dated : DateOf(so_kind, so_sorted[d]) # MinOrdinal)
           => \A m \in Missing, d \in Dated : m < d
        /\ (so_missing_first /\ ~so_ascending) => \A m \in Missing, d \in Dated : d < m


----------------------------------------------------------------------------
(* Properties of PollingSource.iterator *)

PsEventsOf(op) == SelectSeq(ps_trace, LAMBDA e : e.op = op)
PsYielded == [n \in 1..Len(PsEventsOf("yield")) |-> PsEventsOf("yield")[n].arg]

\* the lists the fetches so far returned, one after the other
RECURSIVE PsFetched(_)
PsFetched(n) ==
    IF n = 0 THEN <<>>
    ELSE LET e == PsEventsOf("tasks_by_project")[n]
         IN  PsFetched(n - 1) \o (IF e.arg >= 0 THEN FetchedList(n, e.arg) ELSE <<>>)

\* number of tasks yielded among the first n events
PsYieldsBefore(n) ==
    Cardinality({m \in 1..(n - 1) : ps_trace[m].op = "yield"})

\* C19: the iterator calls the collaborator only once its first item has been
\* requested; the tasks yielded are those of the fetched lists, in order, and
\* a fetch is issued only when every task fetched before has been yielded.
\* Without repeat_after there is at most one fetch, and the iterator is
\* exhausted exactly when the tasks of that one fetch have all been yielded.
\* With repeat_after the iterator is never exhausted: when a list is used up
\* it sleeps, every sleep is followed by a fresh fetch and every fetch but
\* the first comes straight after a sleep.
C19_LazyOnePassOrEndlessPolling ==
    /\ ps_requests = 0 => ps_trace = <<>> /\ ps_fetches = 0
    /\ IsPrefix(PsYielded, PsFetched(Len(PsEventsOf("tasks_by_project"))))
    /\ \A n \in 1..Len(ps_trace) :
          ps_trace[n].op = "tasks_by_project" =>
              PsYieldsBefore(n) = Len(PsFetched(Len(SelectSeq(SubSeq(ps_trace, 1, n - 1),
                                                     LAMBDA e : e.op = "tasks_by_project"))))
    /\ Len(PsYielded) <= ps_requests
    /\ ~ps_repeat =>
          /\ ps_fetches <= 1
          /\ PsEventsOf("sleep") = <<>>
          /\ psPc = "exhausted" =>
                /\ ps_fetches = 1
                /\ PsYielded = PsFetched(1)
                /\ ps_requests = Len(PsYielded) + 1
    /\ ps_repeat =>
          /\ psPc # "exhausted"
          /\ \A n \in 1..Len(ps_trace) :
                /\ (ps_trace[n].op = "sleep" /\ n < Len(ps_trace))
                      => ps_trace[n + 1].op = "tasks_by_project"
                /\ (ps_trace[n].op = "tasks_by_project" /\ n > 2)
                      => ps_trace[n - 1].op = "sleep"
                /\ ps_trace[n].op = "sleep"
                      => ps_trace[n - 1].op \in {"yield", "tasks_by_project"}
          /\ Len(PsEventsOf("sleep")) \in {ps_fetches - 1, ps_fetches}
          /\ (psPc \in {"suspended", "yield_from"} /\ ps_fetches >= 1)
                => Len(PsEventsOf("sleep")) = ps_fetches - 1

\* without repeat_after: the source was exhausted after the two tasks of its
\* one fetch
C19_Witness ==
    /\ ~ps_repeat
    /\ psPc = "exhausted"
    /\ ps_trace = <<Event("project_by_gid", 0), Event("tasks_by_project", 2),
                    Event("yield", TaskOfFetch(1, 1)), Event("yield", TaskOfFetch(1, 2))>>

\* with repeat_after: the tasks of a first fetch were yielded, the source
\* slept, fetched again, and is handing over the second list
C19_WitnessRepeat ==
    /\ ps_repeat
    /\ psPc = "suspended"
    /\ ps_trace = <<Event("project_by_gid", 0), Event("tasks_by_project", 2),
                    Event("yield", TaskOfFetch(1, 1)), Event("yield", TaskOfFetch(1, 2)),
                    Event("sleep", 0), Event("tasks_by_project", 2),
                    Event("yield", TaskOfFetch(2, 1))>>

----------------------------------------------------------------------------
(* Properties of the stage managers reading a persisted label *)

\* the label persisted for the item: the workflow's entry in the blob, the
\* section of the item in the project; None when there is none
PersistedLabel ==
    IF lbl_task.kind = "external"
      THEN DictGet(WorkflowsOf(ExternalOf(lbl_task.external)), WorkflowName, NoneStr)
      ELSE IF FirstMembership(lbl_task.memberships) = 0 THEN NoneStr
           ELSE lbl_task.memberships[FirstMembership(lbl_task.memberships)].section

\* the item has a persisted label that is the name of no stage
UnknownLabel ==
    /\ lbl_task.kind = "external" => WorkflowsOf(ExternalOf(lbl_task.external)) # Null
    /\ PersistedLabel # NoneStr
    /\ \A i \in 1..Len(StageNames) : StageNames[i] # PersistedLabel

\* the context get_current_stage is to return for the item
ExpectedContext ==
    IF lbl_task.kind = "external"
      THEN [external  |-> ExternalOf(lbl_task.external),
            workflows |-> WorkflowsOf(ExternalOf(lbl_task.external))]
      ELSE [project |-> ProjectName]

\* C23: for the blob-backed and the section-backed stage managers an item
\* whose persisted label is the name of no stage gets current stage None
\* with a context, not a warning; the Workflow takes the first stage as
\* candidate-next, so the item can enter the first stage, and when a stage
\* is persisted the on-enter actions of the first stage were applied first.
C23_UnknownLabelIsNoStage ==
    (UnknownLabel /\ lblPc # "get")
    => /\ lbl_result = StageResolved(NoneStr, ExpectedContext)
       /\ lblPc # "done" \/ lbl_actions # <<>> \/ lbl_next = StageNames[1]
       /\ (lblPc = "loop" /\ lbl_actions = <<>>) => lbl_next = StageNames[1]
       /\ lbl_actions # <<>> => lbl_actions[1] = OnEnterNamed(StageNames[1])[1]
       /\ lbl_persisted # NoneStr
           => /\ lbl_applied = lbl_actions
              /\ lbl_applied[1] = OnEnterNamed(StageNames[1])[1]

\* an item whose blob names stage "Z" for the workflow entered the first
\* stage, whose on-enter actions were applied
C23_Witness ==
    /\ lblPc = "done"
    /\ lbl_task.kind = "external"
    /\ PersistedLabel = UnknownStageName
    /\ lbl_persisted = StageNames[1]
    /\ lbl_applied = OnEnterNamed(StageNames[1])

\* the same for an item in a section of the project named like no stage
C23_WitnessSection ==
    /\ lblPc = "done"
    /\ lbl_task.kind = "section"
    /\ PersistedLabel = UnknownStageName
    /\ lbl_persisted = StageNames[1]
    /\ lbl_applied = OnEnterNamed(StageNames[1])

----------------------------------------------------------------------------
(* Properties of the enum-field stage manager *)

\* the field of the item that the workflow is named after, NoField without one
NamedField == FindField(en_fields, FieldName)

FieldAbsent == \A n \in 1..Len(en_fields) : en_fields[n].name # FieldName
NotAnEnumField == ~FieldAbsent /\ NamedField.enum_options = Null
FieldUnset == ~FieldAbsent /\ ~NotAnEnumField /\ NamedField.enum_value = NoneStr
SelectedNamesNoStage ==
    /\ ~FieldAbsent /\ ~NotAnEnumField /\ ~FieldUnset
    /\ \A i \in 1..Len(StageNames) : StageNames[i] # NamedField.enum_value

\* the names of the options of the field
OptionSet ==
    IF FieldAbsent \/ NotAnEnumField THEN {}
    ELSE {NamedField.enum_options.options[n] : n \in 1..Len(NamedField.enum_options.options)}

\* C22: get_current_stage of the enum-field stage manager returns a warning
\* exactly when the named field is absent from the item, is no enum field, or
\* has a selected option named like no stage, and stage None with a context
\* when the field is unset; can_set_stage returns a warning exactly when no
\* option of the field is named like the target stage, so that the option
\* set_stage sets is always one of the field's options, named like the stage.
C22_EnumManagerFailures ==
    /\ enPc # "get"
        => /\ en_result.outcome = "warn"
                <=> (FieldAbsent \/ NotAnEnumField \/ SelectedNamesNoStage)
           /\ en_result.outcome # "raise"
           /\ FieldUnset => /\ en_result.outcome = "ok"
                            /\ en_result.stage = NoneStr
                            /\ en_result.context.custom_field = NamedField
           /\ (en_result.outcome = "ok" /\ ~FieldUnset)
                => en_result.stage = NamedField.enum_value
    /\ en_stage # NoneStr
        => /\ en_can.outcome = "warn" <=> en_stage \notin OptionSet
           /\ en_can.outcome = "ok" => en_can.enum_option = en_stage
           /\ enPc = "done" /\ en_can.outcome = "warn" => en_set = NoneStr
    /\ en_set # NoneStr => en_set \in OptionSet /\ en_set = en_stage

\* the field is unset and has the one option "B": asked for stage "A",
\* can_set_stage warned and nothing was set
C22_Witness ==
    /\ enPc = "done"
    /\ FieldUnset
    /\ OptionSet = {StageNames[2]}
    /\ en_stage = StageNames[1]
    /\ en_can.outcome = "warn"
    /\ en_set = NoneStr

\* the selected option names no stage: get_current_stage warned
C22_WitnessMissingStage ==
    /\ enPc = "done"
    /\ SelectedNamesNoStage
    /\ en_result = StageWarning
    /\ en_stage = NoneStr

====
